---- MODULE Spec2Model ----
(***************************************************************************)
(* pocket-rag: markdown decomposition into text units                      *)
(* (markdown_to_tree.py, Project.split_text_unit / tree_to_text_unit),     *)
(* document storage (database.py), keyword and vector search               *)
(* (Project.search_by_keyword, search_text_units_by_keywords) and hybrid   *)
(* retrieval fusion (Project.search_hybrid).                               *)
(*                                                                         *)
(* A Python str is held run-length encoded: a sequence of runs            *)
(* [c |-> character, n |-> repetitions], no two adjacent runs of the same  *)
(* character, so that equal strings are equal values.  len(), strip(),     *)
(* concatenation and slicing are defined on that form.  The mistune AST    *)
(* (an external parser) is the input of the decomposition: a sequence of   *)
(* block nodes, each with its inline children.                             *)
(***************************************************************************)
EXTENDS Integers, Sequences, FiniteSets, TLC

\* ------------------------------------------------------------------ bounds
MaxBlocks == 3          \* top-level AST blocks of one enumerated markdown input
MaxLevel == 3           \* heading levels 1..MaxLevel

\* ------------------------------------------------------- program constants
MaxUnitLength == 1000   \* __init__.py:182  len(text) > 1000

\* -------------------------------------------------------------- text (str)
NL == "\n"
\* c * n
Rep(c, n) == IF n > 0 THEN <<[c |-> c, n |-> n]>> ELSE <<>>
\* a + b
Cat(a, b) ==
    IF a = <<>> THEN b
    ELSE IF b = <<>> THEN a
    ELSE IF a[Len(a)].c = b[1].c
         THEN SubSeq(a, 1, Len(a) - 1)
              \o <<[c |-> b[1].c, n |-> a[Len(a)].n + b[1].n]>>
              \o SubSeq(b, 2, Len(b))
         ELSE a \o b

RECURSIVE Flatten(_)
\* "".join(seq_of_str)
Flatten(ss) == IF ss = <<>> THEN <<>> ELSE Cat(Head(ss), Flatten(Tail(ss)))

\* the str with the given characters
Str(chars) == Flatten([i \in 1..Len(chars) |-> Rep(chars[i], 1)])

RECURSIVE StrLen(_)
\* len(text)
StrLen(text) == IF text = <<>> THEN 0 ELSE Head(text).n + StrLen(Tail(text))

RECURSIVE Take(_, _)
\* text[:k]
Take(text, k) ==
    IF k <= 0 \/ text = <<>> THEN <<>>
    ELSE IF Head(text).n <= k
         THEN Cat(<<Head(text)>>, Take(Tail(text), k - Head(text).n))
         ELSE <<[c |-> Head(text).c, n |-> k]>>

RECURSIVE Drop(_, _)
\* text[k:]
Drop(text, k) ==
    IF k <= 0 \/ text = <<>> THEN text
    ELSE IF Head(text).n <= k
         THEN Drop(Tail(text), k - Head(text).n)
         ELSE <<[c |-> Head(text).c, n |-> Head(text).n - k]>> \o Tail(text)

IsSpace(c) == c \in {" ", "\n", "\t"}
\* bool(text.strip()): some character is not whitespace
AlwaysTruthy(text) == TRUE

\* bool(text.strip())
StripTruthy(text) == \E i \in 1..Len(text) : ~IsSpace(text[i].c)

\* ------------------------------------------------------- mistune AST nodes
TextNode(raw) == [type |-> "text", raw |-> raw, children |-> <<>>]
StrongNode(raw) == [type |-> "strong", raw |-> <<>>, children |-> <<TextNode(raw)>>]
HeadingNode(level, inl) == [type |-> "heading", level |-> level, children |-> inl]
ParagraphNode(inl) == [type |-> "paragraph", level |-> 0, children |-> inl]
BlankLineNode == [type |-> "blank_line", level |-> 0, children |-> <<>>]

\* ------------------------------------------------------ markdown_to_tree.py
\* build_tree's working state:
\*   nodes : every CustomTreeNode dict created so far (a heap: the stack and
\*           the children lists hold references, here indices into nodes)
\*   tree  : the root list;  stack : the open headings, innermost last
EmptyBuild == [nodes |-> <<>>, tree |-> <<>>, stack |-> <<>>]

HeadingTextUnmarked(node) ==
    IF node.children # <<>> /\ node.children[1].type = "text"
    THEN node.children[1].raw
    ELSE <<>>

\* handle_heading, lines 62-66: "#"*level + " " + children[0].raw when the
\* first inline child is a text node, "" otherwise
HeadingText(node) ==
    IF node.children # <<>> /\ node.children[1].type = "text"
    THEN Flatten(<<Rep("#", node.level), Rep(" ", 1), node.children[1].raw>>)
    ELSE <<>>

RECURSIVE PopStackStrict(_, _, _)
PopStackStrict(nodes, stack, level) ==
    IF stack # <<>> /\ nodes[stack[Len(stack)]].level > level
    THEN PopStackStrict(nodes, SubSeq(stack, 1, Len(stack) - 1), level)
    ELSE stack

RECURSIVE PopStack(_, _, _)
\* handle_heading, lines 68-69: while stack and stack[-1].level >= level: pop
PopStack(nodes, stack, level) ==
    IF stack # <<>> /\ nodes[stack[Len(stack)]].level >= level
    THEN PopStack(nodes, SubSeq(stack, 1, Len(stack) - 1), level)
    ELSE stack

AttachToRoot(bt, item) ==
    [bt EXCEPT !.nodes = Append(@, item), !.tree = Append(@, Len(bt.nodes) + 1)]

\* lines 72-75 and 98-101: append item to stack[-1]["children"], or to tree
Attach(bt, item) ==
    LET id == Len(bt.nodes) + 1
        nodes1 == Append(bt.nodes, item)
    IN  IF bt.stack # <<>>
        THEN LET top == bt.stack[Len(bt.stack)]
             IN  [bt EXCEPT !.nodes = [nodes1 EXCEPT ![top].children = Append(@, id)]]
        ELSE [bt EXCEPT !.nodes = nodes1, !.tree = Append(@, id)]

handle_heading(node, bt) ==
    LET item == [type |-> "heading", text |-> HeadingText(node),
                 level |-> node.level, children |-> <<>>]
        popped == [bt EXCEPT !.stack = PopStack(bt.nodes, bt.stack, node.level)]
        attached == Attach(popped, item)
    IN  [attached EXCEPT !.stack = Append(@, Len(bt.nodes) + 1)]

RECURSIVE JoinTextRaw(_)
\* handle_paragraph, lines 91-96: "".join(raw of the children of type "text")
JoinTextRaw(children) ==
    IF children = <<>> THEN <<>>
    ELSE Cat(IF Head(children).type = "text" THEN Head(children).raw ELSE <<>>,
             JoinTextRaw(Tail(children)))

handle_paragraph(node, bt) ==
    Attach(bt, [type |-> "paragraph", text |-> JoinTextRaw(node.children),
                level |-> 0, children |-> <<>>])

RECURSIVE BuildFrom(_, _, _)
\* build_tree, lines 230-235: dispatch each AST node to its handler; a node
\* type without a handler (blank_line) is skipped
BuildFrom(ast, i, bt) ==
    IF i > Len(ast) THEN bt
    ELSE BuildFrom(ast, i + 1,
            CASE ast[i].type = "heading" -> handle_heading(ast[i], bt)
              [] ast[i].type = "paragraph" -> handle_paragraph(ast[i], bt)
              [] OTHER -> bt)

build_tree(ast) == BuildFrom(ast, 1, EmptyBuild)

\* ------------------------------------------------- the semantic splitter
\* What ask_chatgpt + json.loads can give split_long_text for a body text.
SplitterKinds ==
    {"raise", "invalid_json", "not_object", "chunks_not_list", "chunk_without_text",
     "empty_chunks", "halves", "first_half", "whole"}

Chunk(text) == [has_text |-> TRUE, text |-> text]

\* The reply of the external service, as the parsed JSON value (or the failure).
SplitterReply(kind, body) ==
    LET h == StrLen(body) \div 2
        base == [raises |-> FALSE, valid_json |-> TRUE, is_dict |-> TRUE,
                 has_chunks |-> TRUE, chunks_is_list |-> TRUE, chunks |-> <<>>]
    IN  CASE kind = "raise" -> [base EXCEPT !.raises = TRUE]
          [] kind = "invalid_json" -> [base EXCEPT !.valid_json = FALSE]
          [] kind = "not_object" -> [base EXCEPT !.is_dict = FALSE, !.has_chunks = FALSE]
          [] kind = "chunks_not_list" -> [base EXCEPT !.chunks_is_list = FALSE]
          [] kind = "chunk_without_text" ->
                [base EXCEPT !.chunks = <<Chunk(Take(body, h)),
                                          [has_text |-> FALSE, text |-> <<>>]>>]
          [] kind = "empty_chunks" -> base
          [] kind = "halves" ->
                [base EXCEPT !.chunks = <<Chunk(Take(body, h)),
                                          Chunk(Drop(body, h))>>]
          [] kind = "first_half" -> [base EXCEPT !.chunks = <<Chunk(Take(body, h))>>]
          [] OTHER -> [base EXCEPT !.chunks = <<Chunk(body)>>]

\* Project.split_long_text, lines 281-291: the call or json.loads raises, or
\* the value is returned when it is a dict with a list under "chunks", and
\* {"chunks": []} otherwise
split_long_text(reply) ==
    IF reply.raises \/ ~reply.valid_json
    THEN [err |-> TRUE, chunks |-> <<>>]
    ELSE IF reply.is_dict /\ reply.has_chunks /\ reply.chunks_is_list
         THEN [err |-> FALSE, chunks |-> reply.chunks]
         ELSE [err |-> FALSE, chunks |-> <<>>]

\* -------------------------------------------- Project.tree_to_text_unit
\* acc: the shared text_units list, whether an exception is propagating, the
\* number of splitter calls made, and a log of the _append_text_unit calls
\* (text, heading, the units it appended, the splitter reply kind).
EmptyAcc == [units |-> <<>>, err |-> FALSE, ncalls |-> 0, flushes |-> <<>>]

TextUnit(content) == [content |-> content, content_type |-> "text", sequence |-> 0]

RECURSIVE AppendChunksBare(_, _, _)
AppendChunksBare(acc, chunks, heading) ==
    IF chunks = <<>> THEN acc
    ELSE IF ~Head(chunks).has_text THEN [acc EXCEPT !.err = TRUE]
         ELSE AppendChunksBare([acc EXCEPT !.units = Append(@, TextUnit(Head(chunks).text))],
                               Tail(chunks), heading)

RECURSIVE AppendChunks(_, _, _)
\* lines 186-193: one unit per chunk, heading + chunk["text"]; a chunk record
\* without "text" raises KeyError
AppendChunks(acc, chunks, heading) ==
    IF chunks = <<>> THEN acc
    ELSE IF ~Head(chunks).has_text THEN [acc EXCEPT !.err = TRUE]
         ELSE AppendChunks([acc EXCEPT !.units = Append(@, TextUnit(Cat(heading, Head(chunks).text)))],
                           Tail(chunks), heading)

\* _append_text_unit, lines 174-201
append_text_unit(text, heading, acc, resp) ==
    LET first == Len(acc.units) + 1
    IN  IF StrLen(text) > MaxUnitLength
        THEN LET n == acc.ncalls + 1
                 r == split_long_text(SplitterReply(resp[n], text))
                 a1 == IF r.err THEN [acc EXCEPT !.err = TRUE, !.ncalls = n]
                       ELSE AppendChunks([acc EXCEPT !.ncalls = n], r.chunks, heading)
             IN  [a1 EXCEPT !.flushes = Append(@,
                    [text |-> text, heading |-> heading, first |-> first,
                     count |-> Len(a1.units) - Len(acc.units), split |-> TRUE,
                     kind |-> resp[n]])]
        ELSE IF StripTruthy(text)
             THEN [acc EXCEPT !.units = Append(@, TextUnit(Cat(heading, text))),
                              !.flushes = Append(@,
                    [text |-> text, heading |-> heading, first |-> first,
                     count |-> 1, split |-> FALSE, kind |-> "none"])]
             ELSE acc

RECURSIVE tree_to_text_unit(_, _, _, _, _, _, _, _)
\* lines 203-233: the loop over `tree` from position i with the locals
\* text_flag and tmp_text; nodes is the heap the indices of `tree` point into.
\* An exception raised by _append_text_unit propagates (acc.err).
tree_to_text_unit(nodes, tree, i, text_flag, tmp_text, hedding_str, acc, resp) ==
    IF acc.err THEN acc
    ELSE IF i > Len(tree)
    THEN IF text_flag /\ StripTruthy(tmp_text)
         THEN append_text_unit(tmp_text, hedding_str, acc, resp)
         ELSE acc
    ELSE LET node == nodes[tree[i]]
         IN  IF node.type = "heading"
             THEN LET flush == text_flag /\ StripTruthy(tmp_text)
                      a1 == IF flush
                            THEN append_text_unit(tmp_text, hedding_str, acc, resp)
                            ELSE acc
                      a2 == IF node.children # <<>>
                            THEN tree_to_text_unit(nodes, node.children, 1, FALSE, <<>>,
                                    Flatten(<<hedding_str, node.text, Rep(NL, 1)>>),
                                    a1, resp)
                            ELSE a1
                  IN  tree_to_text_unit(nodes, tree, i + 1, FALSE, <<>>,
                                        hedding_str, a2, resp)
             ELSE LET a1 == IF node.children # <<>>
                            THEN tree_to_text_unit(nodes, node.children, 1, FALSE, <<>>,
                                    hedding_str, acc, resp)
                            ELSE acc
                  IN  tree_to_text_unit(nodes, tree, i + 1, TRUE,
                                        Flatten(<<tmp_text, node.text, Rep(NL, 1)>>),
                                        hedding_str, a1, resp)

EnumerateFromOne(units) == [i \in 1..Len(units) |-> [units[i] EXCEPT !.sequence = i]]

\* split_text_unit, lines 149-150: text_unit["sequence"] = index
Enumerate(units) == [i \in 1..Len(units) |-> [units[i] EXCEPT !.sequence = i - 1]]

\* Project.split_text_unit, lines 146-151, on the AST mistune gives for the
\* markdown text; err: an exception left the call
split_text_unit(ast, resp) ==
    LET bt == build_tree(ast)
        acc == tree_to_text_unit(bt.nodes, bt.tree, 1, FALSE, <<>>, <<>>, EmptyAcc, resp)
    IN  [err |-> acc.err,
         units |-> IF acc.err THEN <<>> ELSE Enumerate(acc.units),
         flushes |-> acc.flushes,
         ncalls |-> acc.ncalls]

\* number of splitter calls the input leads to when no call fails
SplitterCalls(ast) == split_text_unit(ast, [i \in 1..Len(ast) |-> "halves"]).ncalls

\* --------------------------------------------------- markdown inputs (AST)
Str_A == Str(<<"A">>)
Str_B == Str(<<"B">>)
Str_para1 == Str(<<"p", "a", "r", "a", "1">>)
Str_para2 == Str(<<"p", "a", "r", "a", "2">>)
\* a paragraph whose body (text + newline) is exactly MaxUnitLength long
Str_long == Rep("x", MaxUnitLength - 1)

HeadingInlines == {<<TextNode(Str_A)>>, <<TextNode(Str_B)>>}
ParagraphInlines ==
    {<<TextNode(Str_para1)>>, <<TextNode(Str_para2)>>, <<TextNode(Str_long)>>,
     <<TextNode(Str(<<"a", " ">>)), StrongNode(Str(<<"b">>))>>,
     <<StrongNode(Str(<<"b">>))>>}

Blocks ==
    {HeadingNode(l, inl) : l \in 1..MaxLevel, inl \in HeadingInlines}
    \cup {HeadingNode(1, <<StrongNode(Str_A)>>)}
    \cup {ParagraphNode(inl) : inl \in ParagraphInlines}
    \cup {BlankLineNode}

\* mistune's AST of "# A\npara1\n## B\npara2"
ScenarioAst ==
    <<HeadingNode(1, <<TextNode(Str_A)>>), ParagraphNode(<<TextNode(Str_para1)>>),
      HeadingNode(2, <<TextNode(Str_B)>>), ParagraphNode(<<TextNode(Str_para2)>>)>>

\* longer inputs: a skipped level ("#", "###", "##"), three nested scopes,
\* two oversized blocks in one document, and an oversized block between two
\* short ones
LongerAsts ==
    {<<HeadingNode(1, <<TextNode(Str_A)>>), ParagraphNode(<<TextNode(Str_para1)>>),
       HeadingNode(3, <<TextNode(Str_B)>>), ParagraphNode(<<TextNode(Str_para2)>>),
       HeadingNode(2, <<TextNode(Str_A)>>), ParagraphNode(<<TextNode(Str_para1)>>)>>,
     <<ParagraphNode(<<TextNode(Str_para2)>>),
       HeadingNode(1, <<TextNode(Str_A)>>), HeadingNode(2, <<TextNode(Str_B)>>),
       HeadingNode(3, <<TextNode(Str_A)>>), ParagraphNode(<<TextNode(Str_para1)>>),
       HeadingNode(1, <<TextNode(Str_B)>>), ParagraphNode(<<TextNode(Str_para2)>>)>>,
     <<ParagraphNode(<<TextNode(Str_long)>>), ParagraphNode(<<TextNode(Str_para1)>>),
       HeadingNode(1, <<TextNode(Str_A)>>), ParagraphNode(<<TextNode(Str_para2)>>),
       ParagraphNode(<<TextNode(Str_long)>>)>>,
     <<ParagraphNode(<<TextNode(Str_para1)>>),
       HeadingNode(1, <<TextNode(Str_A)>>), ParagraphNode(<<TextNode(Str_long)>>),
       ParagraphNode(<<TextNode(Str_para2)>>),
       HeadingNode(1, <<TextNode(Str_B)>>), ParagraphNode(<<TextNode(Str_para1)>>)>>}

Asts == UNION {[1..n -> Blocks] : n \in 1..MaxBlocks} \cup {ScenarioAst} \cup LongerAsts

\* ------------------------------------------------------------- the files
\* add_document reads a markdown file and update_content is given a markdown
\* text.  A text is named by a string; parse_markdown (mistune, lines 199-204)
\* gives its AST.
Text_Scenario == "# A\npara1\n## B\npara2"
Text_Split == "x{999}\n\npara1\n# A\npara2"      \* x{999}: 999 times the letter x
Text_Para == "para1"
Text_HeadingOnly == "# B"

parse_markdown(markdown_text) ==
    CASE markdown_text = Text_Scenario -> ScenarioAst
      [] markdown_text = Text_Split ->
            <<ParagraphNode(<<TextNode(Str_long)>>), BlankLineNode,
              ParagraphNode(<<TextNode(Str_para1)>>),
              HeadingNode(1, <<TextNode(Str_A)>>), ParagraphNode(<<TextNode(Str_para2)>>)>>
      [] markdown_text = Text_Para -> <<ParagraphNode(<<TextNode(Str_para1)>>)>>
      [] OTHER -> <<HeadingNode(1, <<TextNode(Str_B)>>)>>

MarkdownTexts == {Text_Scenario, Text_Split, Text_Para, Text_HeadingOnly}

\* split_text_unit(text) for every text of MarkdownTexts and every sequence of
\* splitter replies it can meet, tabulated once
\* (the storage machine draws the replies from StoreSplitterKinds)
StoreSplitterKinds == {"raise", "not_object", "halves"}
SplitterReplies(markdown_text) ==
    [1..SplitterCalls(parse_markdown(markdown_text)) -> StoreSplitterKinds]
SplitterRepliesOf == [t \in MarkdownTexts |-> SplitterReplies(t)]
SplitTextUnitOf ==
    [t \in MarkdownTexts |->
        [resp \in SplitterRepliesOf[t] |-> split_text_unit(parse_markdown(t), resp)]]

Paths == {"docs/a.md", "docs/b.md"}
\* the file contents on disk
FileContent(path) == IF path = "docs/a.md" THEN Text_Scenario ELSE Text_Split
\* Path(path).name
PathName(path) == IF path = "docs/a.md" THEN "a.md" ELSE "b.md"
\* the new_content values given to Document.update_content
NewContents == {Text_Split, Text_Para, Text_HeadingOnly}

\* ------------------------------------------------------------- embedding.py
\* Embedding.generate_embedding + serialize_vector: the external model's
\* fixed-size vector for a text, as bytes; a function of the text alone
\* (here: of its length and its first characters)
EmbeddingBytes(content) == [length |-> StrLen(content), start |-> Take(content, 12)]

\* ------------------------------------------------------------------- state
VARIABLES
    markdown_ast,   \* the AST of the markdown text the last operation gave to split_text_unit
    split_result,   \* what split_text_unit returned to it (status "none": it was not called)
    documents,      \* table documents: rows [id, name, path, unit_count, content]
    text_units,     \* table text_units: rows [id, document_id, sequence, content, content_type]
    text_units_vec, \* table text_units_vec: rows [rowid, embedding]
    handle,         \* a Document object held by the caller (or NoHandle)
    last_op,        \* the last operation called and how it ended
    vector_results,     \* search_hybrid: what search_by_vector(query, k * 2) returned
    keyword_results,    \* search_hybrid: what search_by_keyword(query) returned
    search_args,        \* search_hybrid: its arguments k, vector_weight, keyword_weight
    processed_results,  \* search_hybrid: the local list after the sort of line 419
    returned,           \* search_hybrid: the list the last call returned
    previous_returned,  \* the list the call before the last returned, on the same inputs
    search_phase,       \* "none", "once" or "repeated": calls of search_hybrid so far
    calls,          \* the searches the last search_hybrid call made, in call order
    files,          \* the database files: files[<<directory, project id>>]
    clock,          \* datetime.now(), in seconds
    project,        \* a Project object held by the caller (or NoProject)
    connections,    \* concurrent add_document calls: the state of each one's connection
    write_lock      \* the connection that holds the database's write lock (0: none)

store == <<documents, text_units, text_units_vec>>
search == <<vector_results, keyword_results, search_args, processed_results, returned,
            previous_returned, search_phase>>
disk == <<files, clock, project>>
ingest == <<connections, write_lock>>
vars == <<markdown_ast, split_result, documents, text_units, text_units_vec, handle, last_op,
          search, calls, disk, ingest>>

NoResult == [status |-> "none", err |-> FALSE, units |-> <<>>, flushes |-> <<>>, ncalls |-> 0]
NoHandle == [document_id |-> 0, name |-> "", path |-> "", unit_count |-> 0, content |-> ""]
NoOp == [op |-> "none", status |-> "none"]

\* no search is under way
NoSearch ==
    /\ vector_results = <<>> /\ keyword_results = <<>>
    /\ search_args = [k |-> 0, vector_weight |-> 0, keyword_weight |-> 0]
    /\ processed_results = <<>> /\ returned = <<>> /\ previous_returned = <<>>
    /\ search_phase = "none"

ResultOf(r) ==
    [status |-> "done", err |-> r.err, units |-> r.units, flushes |-> r.flushes,
     ncalls |-> r.ncalls]

\* ------------------------------------------- the project database files
Dirs == {".", "db"}                 \* ".": the working directory of the process
ProjectIds == {"docs", "_temp_"}
\* a name or description is held as the sequence of its parts ("" is <<>>,
\* "Project: docs" is <<"Project: ", "docs">>), and an Optional[str]
\* argument as <<>> for None and <<x>> for the string x
EmptyStr == <<>>
Names == {<<>>, <<EmptyStr>>, <<<<"Docs">>>>}
Descriptions == {<<>>, <<EmptyStr>>, <<<<"about">>>>}

\* a database file: whether it exists, whether it holds the four tables, and
\* the rows of project_info as get_project_info returns them (<<>>: no row)
NoFile == [exists |-> FALSE, tables |-> FALSE, info |-> <<>>]
NoFiles == [key \in Dirs \X ProjectIds |-> NoFile]
NoProject == [dir |-> "", id |-> ""]
ProjectOf(dir, id) == [dir |-> dir, id |-> id]

\* x or default
Or(x, default) == IF x = <<>> \/ x[1] = EmptyStr THEN default ELSE x[1]

\* lines 124-132, with "Project: <id>" held as the pair of its parts
project_data(id, name, description, now) ==
    [id |-> id,
     name |-> Or(name, <<id>>),
     description |-> Or(description, <<"Project: ", id>>),
     created_at |-> now,
     updated_at |-> now]

\* sqlite3.connect (database.py 22) creates the file when it is missing
Connected(file) == [file EXCEPT !.exists = TRUE]
\* Database._setup_database, database.py 28-76: CREATE TABLE IF NOT EXISTS
setup_database(file) == [Connected(file) EXCEPT !.tables = TRUE]
\* Database.update_project, database.py 78-86: INSERT OR REPLACE of every key
update_project(file, params) == [Connected(file) EXCEPT !.info = <<params>>]

setup_project_always(fs, dir, id, name, description, now) ==
    [fs EXCEPT ![<<dir, id>>] =
        update_project(setup_database(@), project_data(id, name, description, now))]

\* Project.__init__ / Project._setup_project, lines 103-134: the files after
\* Project(id, dir, name=name, description=description)
setup_project(fs, dir, id, name, description, now) ==
    LET is_new == ~fs[<<dir, id>>].exists
        db_instance == setup_database(fs[<<dir, id>>])
    IN  [fs EXCEPT ![<<dir, id>>] =
            IF is_new
            THEN update_project(db_instance, project_data(id, name, description, now))
            ELSE db_instance]

\* RAG.get_project(), lines 47-52: the stems of the .sqlite3 files of the directory
ListedIds(fs, dir) == {id \in ProjectIds : fs[<<dir, id>>].exists}

\* the files, the clock and the held Project after
\* RAG(dir).add_project("docs") in empty directories
DiskOf(dir) ==
    /\ clock = 1
    /\ files = setup_project(NoFiles, dir, "docs", <<>>, <<>>, 1)
    /\ project = ProjectOf(dir, "docs")

\* no concurrent ingestion is under way
NoIngest ==
    /\ connections = <<>>
    /\ write_lock = 0

\* ----------------------------------------------------------- decomposition
InitDecompose ==
    /\ markdown_ast \in Asts
    /\ split_result = NoResult
    /\ documents = {} /\ text_units = {} /\ text_units_vec = {}
    /\ handle = NoHandle
    /\ last_op = NoOp
    /\ calls = <<>>
    /\ DiskOf("db")
    /\ NoIngest
    /\ NoSearch

\* one call Project.split_text_unit(markdown_text)
Decompose ==
    /\ split_result.status = "none"
    /\ \E resp \in [1..SplitterCalls(markdown_ast) -> SplitterKinds] :
          split_result' = ResultOf(split_text_unit(markdown_ast, resp))
    /\ UNCHANGED <<markdown_ast, store, handle, last_op, search, calls, disk, ingest>>

NextDecompose == Decompose

SpecDecompose == InitDecompose /\ [][NextDecompose]_vars

\* -------------------------------------------------------------- database.py
\* sqlite gives a row of an INTEGER PRIMARY KEY table without AUTOINCREMENT
\* (lines 43-65) the rowid max(rowid) + 1, and 1 in an empty table
NextRowId(ids) == IF ids = {} THEN 1 ELSE (CHOOSE m \in ids : \A x \in ids : x <= m) + 1
Ids(rows) == {r.id : r \in rows}

\* lines 248-261: one text_units row per unit, in list order; the i-th row
\* gets the i-th rowid handed out
TextUnitRows(document_id, units, first_id) ==
    {[id |-> first_id + i - 1, document_id |-> document_id,
      sequence |-> units[i].sequence, content |-> units[i].content,
      content_type |-> units[i].content_type] : i \in 1..Len(units)}

MinOf(a, b) == IF a <= b THEN a ELSE b

VecRowsButLast(first_id, n_units, embeddings) ==
    {[rowid |-> first_id + i - 1, embedding |-> embeddings[i]]
        : i \in 1..(MinOf(n_units, Len(embeddings)) - 1)}

\* lines 266-272: zip(text_unit_ids, embeddings)
VecRows(first_id, n_units, embeddings) ==
    {[rowid |-> first_id + i - 1, embedding |-> embeddings[i]]
        : i \in 1..MinOf(n_units, Len(embeddings))}

\* Database.insert_document_with_embeddings, lines 221-276: the new tables and
\* the returned document id
insert_document_with_embeddings(docs, tus, vecs, name, path, content, units, embeddings) ==
    LET document_id == NextRowId(Ids(docs))
        first_id == NextRowId(Ids(tus))
    IN  [documents |-> docs \cup {[id |-> document_id, name |-> name, path |-> path,
                                    unit_count |-> Len(units), content |-> content]},
         text_units |-> tus \cup TextUnitRows(document_id, units, first_id),
         text_units_vec |-> vecs \cup VecRows(first_id, Len(units), embeddings),
         document_id |-> document_id]

delete_document_rows_only(docs, tus, vecs, document_id) ==
    [documents |-> {d \in docs : d.id # document_id},
     text_units |-> {t \in tus : t.document_id # document_id},
     text_units_vec |-> vecs]

\* Database.delete_document_and_embeddings, lines 282-313
delete_document_and_embeddings(docs, tus, vecs, document_id) ==
    LET text_unit_ids == {tu.id : tu \in {t \in tus : t.document_id = document_id}}
    IN  [documents |-> {d \in docs : d.id # document_id},
         text_units |-> {t \in tus : t.document_id # document_id},
         text_units_vec |-> {v \in vecs : v.rowid \notin text_unit_ids}]

\* Database.get_document, lines 107-124: the row, or none
HasDocument(docs, document_id) == \E d \in docs : d.id = document_id
get_document(docs, document_id) == CHOOSE d \in docs : d.id = document_id

\* Document._reload, lines 501-510
Reloaded(docs, document_id) ==
    LET d == get_document(docs, document_id)
    IN  [document_id |-> document_id, name |-> d.name, path |-> d.path,
         unit_count |-> d.unit_count, content |-> d.content]

\* lines 265-266 / 559-560: one serialized embedding per unit content
EmbeddingsOf(units) == [i \in 1..Len(units) |-> EmbeddingBytes(units[i].content)]

\* a call may be cut short by an exception of a collaborator (file system,
\* embedding model, sqlite); a fault names the step that raises, "none" if
\* none does
\* the faults add_document can meet when split_text_unit returned r
AddFaults(r) ==
    IF r.err THEN {"none", "read"} ELSE {"none", "read", "embedding", "insert"}
\* the faults update_content can meet; deletes: line 580 is reached
UpdateFaults(r, deletes) ==
    IF r.err THEN {"none"}
    ELSE {"none", "embedding", "insert", "reload"} \cup (IF deletes THEN {"delete"} ELSE {})
\* the statements of the insert (1: the documents row, then one per text
\* unit, then one per embedding), any of which may raise
InsertStatements(units) == 1..(1 + 2 * Len(units))

\* the tables as the inserting connection has written them when `done`
\* statements of insert_document_with_embeddings (lines 225-272) have run
StatementsDone(docs, tus, vecs, ins, done) ==
    LET first_id == NextRowId(Ids(tus))
        n_units == Cardinality(ins.text_units \ tus)
    IN  [documents |-> IF done >= 1 THEN ins.documents ELSE docs,
         text_units |-> {t \in ins.text_units : t \in tus \/ t.id < first_id + (done - 1)},
         text_units_vec |-> {v \in ins.text_units_vec :
                                v \in vecs \/ v.rowid < first_id + (done - 1 - n_units)}]

Autocommitted(committed, written) == written

\* sqlite3.connect() without isolation_level (line 22) opens a transaction at
\* the first INSERT; a connection dropped before conn.commit() (line 274)
\* leaves the database as committed
Uncommitted(committed, written) == committed

\* ------------------------------------------------------------- __init__.py
MaxDocumentId == 2      \* a document is inserted while its rowid is at most this
MaxTextUnitId == 3      \* ... and the rowid of its first text unit at most this

Init ==
    /\ markdown_ast = <<>>
    /\ split_result = NoResult
    /\ documents = {} /\ text_units = {} /\ text_units_vec = {}
    /\ handle = NoHandle
    /\ last_op = NoOp
    /\ calls = <<>>
    /\ DiskOf("db")
    /\ NoIngest
    /\ NoSearch

Failed(op, at) == [op |-> op, status |-> "error", at |-> at]

\* Project.add_document(path=path), lines 256-275
AddDocument(path, resp) ==
    \E r \in {SplitTextUnitOf[FileContent(path)][resp]} :
    \E ins \in {insert_document_with_embeddings(documents, text_units, text_units_vec,
                  PathName(path), path, FileContent(path), r.units, EmbeddingsOf(r.units))} :
    \E before \in {[documents |-> documents, text_units |-> text_units,
                    text_units_vec |-> text_units_vec]} :
    \E fault \in AddFaults(r) :
        /\ CASE fault = "read" ->
                    /\ UNCHANGED <<store, handle>>
                    /\ markdown_ast' = <<>> /\ split_result' = NoResult
                    /\ last_op' = Failed("add_document", "read")
             [] fault # "read" /\ r.err ->
                    /\ UNCHANGED <<store, handle>>
                    /\ last_op' = Failed("add_document", "split")
             [] fault = "embedding" /\ ~r.err ->
                    /\ UNCHANGED <<store, handle>>
                    /\ last_op' = Failed("add_document", "embedding")
             [] fault = "insert" /\ ~r.err ->
                    \* statement n raises when n - 1 statements have run
                    \E left \in {Uncommitted(before,
                                    StatementsDone(documents, text_units, text_units_vec,
                                                   ins, n - 1))
                                    : n \in InsertStatements(r.units)} :
                        /\ documents' = left.documents
                        /\ text_units' = left.text_units
                        /\ text_units_vec' = left.text_units_vec
                        /\ UNCHANGED handle
                        /\ last_op' = Failed("add_document", "insert")
             [] fault = "none" /\ ~r.err ->
                    /\ documents' = ins.documents
                    /\ text_units' = ins.text_units
                    /\ text_units_vec' = ins.text_units_vec
                    \* the caller holds the Document returned, or keeps the one held
                    /\ handle' \in {Reloaded(ins.documents, ins.document_id)}
                                   \cup ({handle} \ {NoHandle})
                    /\ last_op' = [op |-> "add_document", status |-> "ok"]
        /\ fault # "read" =>
              /\ markdown_ast' = parse_markdown(FileContent(path))
              /\ split_result' = ResultOf(r)
        /\ UNCHANGED <<search, calls, disk, ingest>>

\* Document.update_content(new_content), lines 554-584, on the held Document:
\* the new generation is inserted first, the old one deleted when the ids differ
UpdateContent(new_content, resp) ==
    \E r \in {SplitTextUnitOf[new_content][resp]} :
    \E ins \in {insert_document_with_embeddings(documents, text_units, text_units_vec,
                  handle.name, handle.path, new_content, r.units, EmbeddingsOf(r.units))} :
    \E del \in {IF handle.document_id # ins.document_id
               THEN delete_document_and_embeddings(ins.documents, ins.text_units,
                        ins.text_units_vec, handle.document_id)
               ELSE ins} :
    \E before \in {[documents |-> documents, text_units |-> text_units,
                    text_units_vec |-> text_units_vec]} :
    \E fault \in UpdateFaults(r, handle.document_id # ins.document_id) :
        /\ CASE r.err ->
                    /\ UNCHANGED <<store, handle>>
                    /\ last_op' = Failed("update_content", "split")
             [] fault = "embedding" /\ ~r.err ->
                    /\ UNCHANGED <<store, handle>>
                    /\ last_op' = Failed("update_content", "embedding")
             [] fault = "insert" /\ ~r.err ->
                    \* statement n raises when n - 1 statements have run
                    \E left \in {Uncommitted(before,
                                    StatementsDone(documents, text_units, text_units_vec,
                                                   ins, n - 1))
                                    : n \in InsertStatements(r.units)} :
                        /\ documents' = left.documents
                        /\ text_units' = left.text_units
                        /\ text_units_vec' = left.text_units_vec
                        /\ UNCHANGED handle
                        /\ last_op' = Failed("update_content", "insert")
             [] fault = "delete" /\ ~r.err ->
                    \* line 580 raises: the insert is committed, the delete is not
                    /\ documents' = ins.documents
                    /\ text_units' = ins.text_units
                    /\ text_units_vec' = ins.text_units_vec
                    /\ UNCHANGED handle
                    /\ last_op' = Failed("update_content", "delete")
             [] fault = "reload" /\ ~r.err ->
                    \* line 583 raises after line 582 has set self.document_id
                    /\ documents' = del.documents
                    /\ text_units' = del.text_units
                    /\ text_units_vec' = del.text_units_vec
                    /\ handle' = [handle EXCEPT !.document_id = ins.document_id]
                    /\ last_op' = Failed("update_content", "reload")
             [] fault = "none" /\ ~r.err ->
                    /\ documents' = del.documents
                    /\ text_units' = del.text_units
                    /\ text_units_vec' = del.text_units_vec
                    /\ handle' = Reloaded(del.documents, ins.document_id)
                    /\ last_op' = [op |-> "update_content", status |-> "ok"]
        /\ markdown_ast' = parse_markdown(new_content)
        /\ split_result' = ResultOf(r)
        \* line 554: Project(project_id="_temp_", database_dir_path=Path("."))
        /\ files' = setup_project(files, ".", "_temp_", <<>>, <<>>, clock)
        /\ UNCHANGED <<clock, project>>
        /\ UNCHANGED <<search, calls, ingest>>

\* Project.remove_document(document_id), lines 422-429
RemoveDocument(document_id) ==
    \E del \in {delete_document_and_embeddings(documents, text_units, text_units_vec,
                                                document_id)} :
        /\ documents' = del.documents
        /\ text_units' = del.text_units
        /\ text_units_vec' = del.text_units_vec
        /\ last_op' = [op |-> "remove_document", status |-> "ok"]
        /\ markdown_ast' = <<>> /\ split_result' = NoResult
        /\ UNCHANGED <<handle, search, calls, disk, ingest>>

\* Document.delete(), lines 534-536, on the held Document
DocumentDelete ==
    \E del \in {delete_document_and_embeddings(documents, text_units, text_units_vec,
                                                handle.document_id)} :
        /\ documents' = del.documents
        /\ text_units' = del.text_units
        /\ text_units_vec' = del.text_units_vec
        /\ last_op' = [op |-> "delete", status |-> "ok"]
        /\ markdown_ast' = <<>> /\ split_result' = NoResult
        /\ UNCHANGED <<handle, search, calls, disk, ingest>>

\* Project.get_document(document_id), lines 303-306: a Document, or None
GetDocument(document_id) ==
    /\ IF HasDocument(documents, document_id)
       THEN /\ handle' = Reloaded(documents, document_id)
            /\ last_op' = [op |-> "get_document", status |-> "ok"]
       ELSE /\ handle' = NoHandle
            /\ last_op' = [op |-> "get_document", status |-> "none"]
    /\ markdown_ast' = <<>> /\ split_result' = NoResult
    /\ UNCHANGED <<store, search, calls, disk, ingest>>

\* the model's cap on the rowids handed out
RoomForInsert ==
    /\ NextRowId(Ids(documents)) <= MaxDocumentId
    /\ NextRowId(Ids(text_units)) <= MaxTextUnitId

AddDocumentCall ==
    /\ RoomForInsert
    /\ \E path \in Paths :
          \E resp \in SplitterRepliesOf[FileContent(path)] :
              AddDocument(path, resp)

UpdateContentCall ==
    /\ handle # NoHandle
    /\ RoomForInsert
    /\ \E new_content \in NewContents :
          \E resp \in SplitterRepliesOf[new_content] :
              UpdateContent(new_content, resp)

RemoveDocumentCall == \E document_id \in 1..MaxDocumentId : RemoveDocument(document_id)

DocumentDeleteCall == handle # NoHandle /\ DocumentDelete

GetDocumentCall == \E document_id \in 1..MaxDocumentId : GetDocument(document_id)

Next ==
    \/ AddDocumentCall
    \/ UpdateContentCall
    \/ RemoveDocumentCall
    \/ DocumentDeleteCall
    \/ GetDocumentCall

Spec == Init /\ [][Next]_vars

\* ------------------------------------------------------ __init__.py RAG
MaxClock == 2       \* the clock runs from 1 to MaxClock
RagDir == "db"      \* database_dir_path of the RAG object

\* RAG.get_project(project_id=id), lines 40-46: FileNotFoundError, or the
\* list of the one Project
get_project(fs, dir, project_id) ==
    IF ~fs[<<dir, project_id>>].exists
    THEN [raises |-> TRUE, ids |-> <<>>]
    ELSE [raises |-> FALSE, ids |-> <<project_id>>]

\* Database.get_project_info, database.py 88-101: the rows of project_info
get_project_info(file) == file.info

\* the directories exist and hold no database
InitProjects ==
    /\ markdown_ast = <<>>
    /\ split_result = NoResult
    /\ documents = {} /\ text_units = {} /\ text_units_vec = {}
    /\ handle = NoHandle
    /\ last_op = NoOp
    /\ calls = <<>>
    /\ clock = 1
    /\ files = NoFiles
    /\ project = NoProject
    /\ NoIngest
    /\ NoSearch

\* the caller holds the Project returned, or keeps the one held
Held(made) == made \cup ({project} \ {NoProject})

\* RAG.add_project(id, name=name, description=description), line 68
AddProject(dir, id, name, description) ==
    /\ files' = setup_project(files, dir, id, name, description, clock)
    /\ project' \in Held({ProjectOf(dir, id)})
    /\ last_op' = [op |-> "add_project", status |-> "ok", id |-> id,
                   name |-> name, description |-> description]
    /\ UNCHANGED <<markdown_ast, split_result, store, handle, search, calls, clock, ingest>>

\* RAG.get_project(project_id=id), lines 40-46
GetProject(dir, project_id) ==
    /\ IF get_project(files, dir, project_id).raises
       THEN /\ last_op' = [op |-> "get_project", status |-> "FileNotFoundError",
                           id |-> project_id]
            /\ UNCHANGED <<files, project>>
       ELSE /\ files' = setup_project(files, dir, project_id, <<>>, <<>>, clock)
            /\ project' \in Held({ProjectOf(dir, project_id)})
            /\ last_op' = [op |-> "get_project", status |-> "ok", id |-> project_id,
                           result |-> get_project(files, dir, project_id).ids]
    /\ UNCHANGED <<markdown_ast, split_result, store, handle, search, calls, clock, ingest>>

\* RAG.get_project(), lines 47-52: a Project for every .sqlite3 file
GetProjects(dir) ==
    /\ files' = [key \in DOMAIN files |->
                    IF key[1] = dir /\ key[2] \in ListedIds(files, dir)
                    THEN setup_project(files, dir, key[2], <<>>, <<>>, clock)[key]
                    ELSE files[key]]
    /\ project' \in {project} \cup {ProjectOf(dir, id) : id \in ListedIds(files, dir)}
    /\ last_op' = [op |-> "get_projects", status |-> "ok", result |-> ListedIds(files, dir)]
    /\ UNCHANGED <<markdown_ast, split_result, store, handle, search, calls, clock, ingest>>

\* RAG.remove_project(id), lines 77-78: unlink(missing_ok=False)
RemoveProject(dir, id) ==
    /\ IF files[<<dir, id>>].exists
       THEN /\ files' = [files EXCEPT ![<<dir, id>>] = NoFile]
            /\ last_op' = [op |-> "remove_project", status |-> "ok", id |-> id]
       ELSE /\ UNCHANGED files
            /\ last_op' = [op |-> "remove_project", status |-> "FileNotFoundError",
                           id |-> id]
    /\ UNCHANGED <<markdown_ast, split_result, store, handle, search, calls, clock, project,
                   ingest>>

\* Project.get_project_info() on the held Project, line 243: the Database
\* connects to its path, then SELECT * FROM "project_info" (OperationalError
\* when the table is missing)
GetProjectInfo ==
    /\ project # NoProject
    /\ files' = [files EXCEPT ![<<project.dir, project.id>>] = Connected(@)]
    /\ last_op' = IF files[<<project.dir, project.id>>].tables
                  THEN [op |-> "get_project_info", status |-> "ok", id |-> project.id,
                        result |-> get_project_info(files[<<project.dir, project.id>>])]
                  ELSE [op |-> "get_project_info", status |-> "OperationalError",
                        id |-> project.id]
    /\ UNCHANGED <<markdown_ast, split_result, store, handle, search, calls, clock, project,
                   ingest>>

\* a second passes
Tick ==
    /\ clock < MaxClock
    /\ clock' = clock + 1
    /\ UNCHANGED <<markdown_ast, split_result, store, handle, last_op, search, calls, files,
                   project, ingest>>

AddProjectCall ==
    \E id \in ProjectIds, name \in Names, description \in Descriptions :
        AddProject(RagDir, id, name, description)
GetProjectCall == \E id \in ProjectIds : GetProject(RagDir, id)
RemoveProjectCall == \E id \in ProjectIds : RemoveProject(RagDir, id)

NextProjects ==
    \/ AddProjectCall
    \/ GetProjectCall
    \/ GetProjects(RagDir)
    \/ RemoveProjectCall
    \/ GetProjectInfo
    \/ Tick

SpecProjects == InitProjects /\ [][NextProjects]_vars

\* ------------------------------------------------- __init__.py search_hybrid
MaxId == 2      \* the text units hit have the rowids 1..MaxId
MaxK == 2       \* k in 0..MaxK

\* One length unit of the model is 1e-6 (line 384): MicroUnits units are 1.0.
\* A distance is a whole number of units.
MicroUnits == 1000000
Distances == {0, 100000, 300000}        \* 0, 0.1 and 0.3

\* Scores and weights are exact rationals [num, den] in lowest terms (the
\* code's floats, without their rounding).
RECURSIVE GCD(_, _)
GCD(a, b) == IF b = 0 THEN a ELSE GCD(b, a % b)
Ratio(a, b) == LET g == GCD(a, b) IN [num |-> a \div g, den |-> b \div g]
Zero == Ratio(0, 1)
One == Ratio(1, 1)
AddR(x, y) ==
    LET l == (x.den \div GCD(x.den, y.den)) * y.den
    IN  Ratio(x.num * (l \div x.den) + y.num * (l \div y.den), l)
MulR(x, y) ==
    LET g1 == GCD(x.num, y.den)
        g2 == GCD(y.num, x.den)
    IN  IF x.num = 0 \/ y.num = 0 THEN Zero
        ELSE [num |-> (x.num \div g1) * (y.num \div g2),
              den |-> (x.den \div g2) * (y.den \div g1)]
\* a/b < c/d for a, c >= 0 and b, d > 0, by continued fractions
RECURSIVE LessFrac(_, _, _, _)
LessFrac(a, b, c, d) ==
    IF a \div b # c \div d THEN a \div b < c \div d
    ELSE IF c % d = 0 THEN FALSE
    ELSE IF a % b = 0 THEN TRUE
    ELSE LessFrac(d, c % d, b, a % b)
LessR(x, y) == LessFrac(x.num, x.den, y.num, y.den)

\* Python's None, where an integer key may also stand
None == -1
\* dict.get(key)
Get(item, key) == IF key \in DOMAIN item THEN item[key] ELSE None
\* truth value of an integer-or-None
Truthy(v) == v # None /\ v # 0

\* line 375: item.get("text_unit_id") or item.get("id")
make_id_key(item) ==
    IF Truthy(Get(item, "text_unit_id")) THEN Get(item, "text_unit_id") ELSE Get(item, "id")

\* lines 379-380: {id_key: item for item in results if id_key is not None};
\* a later item replaces an earlier one of the same key
DictOf(results) ==
    LET keys == {make_id_key(results[i]) : i \in 1..Len(results)} \ {None}
        last(key) == CHOOSE i \in 1..Len(results) :
                        /\ make_id_key(results[i]) = key
                        /\ \A j \in (i + 1)..Len(results) : make_id_key(results[j]) # key
    IN  [key \in keys |-> results[last(key)]]

vector_score_func_halved(distance) == Ratio(MicroUnits, 2 * (distance + 1))

\* lines 382-384: 1.0 / (distance + 1e-6)
vector_score_func(distance) == Ratio(MicroUnits, distance + 1)

base_info_keyword_first(id_, vector_dict, keyword_dict) ==
    IF id_ \in DOMAIN keyword_dict THEN keyword_dict[id_] ELSE vector_dict[id_]

\* lines 399-406: the fields of the vector hit if there is one, else those of
\* the keyword hit
base_info(id_, vector_dict, keyword_dict) ==
    IF id_ \in DOMAIN vector_dict THEN vector_dict[id_] ELSE keyword_dict[id_]

\* lines 391-417, one pass of the loop body for id_
ResultItem(id_, vector_dict, keyword_dict, vector_weight, keyword_weight) ==
    LET has_v == id_ \in DOMAIN vector_dict
        has_kw == id_ \in DOMAIN keyword_dict
        vector_score == IF has_v /\ "distance" \in DOMAIN vector_dict[id_]
                        THEN vector_score_func(vector_dict[id_].distance) ELSE Zero
        keyword_score == IF has_kw THEN One ELSE Zero
        hybrid_score == AddR(MulR(vector_weight, vector_score),
                             MulR(keyword_weight, keyword_score))
    IN  [hybrid_score |-> hybrid_score, vector_score |-> vector_score,
         keyword_score |-> keyword_score] @@ base_info(id_, vector_dict, keyword_dict)

\* list.sort(key=hybrid_score, reverse=True), line 419: stable, so records of
\* equal score keep their order
RECURSIVE InsertDesc(_, _)
InsertDesc(sorted, x) ==
    IF sorted = <<>> THEN <<x>>
    ELSE IF LessR(Head(sorted).hybrid_score, x.hybrid_score) THEN <<x>> \o sorted
    ELSE <<Head(sorted)>> \o InsertDesc(Tail(sorted), x)
RECURSIVE SortFrom(_, _, _)
SortFrom(seq, i, sorted) ==
    IF i > Len(seq) THEN sorted ELSE SortFrom(seq, i + 1, InsertDesc(sorted, seq[i]))
Unsorted(seq) == seq
SortDescending(seq) == SortFrom(seq, 1, <<>>)

SliceOneMore(seq, k) == SubSeq(seq, 1, MinOf(k + 1, Len(seq)))
\* seq[:int(k)], line 420
SliceTo(seq, k) ==
    IF k >= 0 THEN SubSeq(seq, 1, MinOf(k, Len(seq)))
    ELSE SubSeq(seq, 1, IF Len(seq) + k > 0 THEN Len(seq) + k ELSE 0)

\* the orders in which a Python set of these keys may be iterated (line 390):
\* the language leaves the order open
Orders(S) ==
    {order \in [1..Cardinality(S) -> S] :
        \A i, j \in 1..Cardinality(S) : i # j => order[i] # order[j]}

\* the hits a search can return: distinct rowids; vector hits by ascending
\* distance (database.py line 328), keyword hits in table order
Injective(seq, key) ==
    \A i, j \in 1..Len(seq) : i # j => seq[i][key] # seq[j][key]
VectorHit(id, distance) == [text_unit_id |-> id, distance |-> distance]
KeywordHit(id) == [id |-> id, content_type |-> "text"]
VectorHitLists ==
    {hits \in UNION {[1..n -> {VectorHit(id, d) : id \in 1..MaxId, d \in Distances}]
                        : n \in 0..MaxId} :
        /\ Injective(hits, "text_unit_id")
        /\ \A i \in 1..(Len(hits) - 1) : hits[i].distance <= hits[i + 1].distance}
KeywordHitLists ==
    {hits \in UNION {[1..n -> {KeywordHit(id) : id \in 1..MaxId}] : n \in 0..MaxId} :
        \A i \in 1..(Len(hits) - 1) : hits[i].id < hits[i + 1].id}
\* (vector_weight, keyword_weight): (1, 1) and the defaults (100, 0.3) of line 357
Weights == {<<One, One>>, <<Ratio(100, 1), Ratio(3, 10)>>}

InitFusion ==
    /\ markdown_ast = <<>>
    /\ split_result = NoResult
    /\ documents = {} /\ text_units = {} /\ text_units_vec = {}
    /\ handle = NoHandle
    /\ last_op = NoOp
    /\ calls = <<>>
    /\ DiskOf("db")
    /\ NoIngest
    /\ \E k \in 0..MaxK, w \in Weights :
          /\ search_args = [k |-> k, vector_weight |-> w[1], keyword_weight |-> w[2]]
          /\ vector_results \in {hits \in VectorHitLists : Len(hits) <= k * 2}
    /\ keyword_results \in KeywordHitLists
    /\ processed_results = <<>> /\ returned = <<>> /\ previous_returned = <<>>
    /\ search_phase = "none"

\* one call of search_hybrid, lines 379-420, the two searches having returned
\* vector_results and keyword_results; order: the iteration order of all_ids
SearchHybrid(order) ==
    LET vector_dict == DictOf(vector_results)
        keyword_dict == DictOf(keyword_results)
        unsorted == [i \in 1..Len(order) |->
                        ResultItem(order[i], vector_dict, keyword_dict,
                                   search_args.vector_weight, search_args.keyword_weight)]
    IN  \E sorted \in {SortDescending(unsorted)} :
            /\ processed_results' = sorted
            /\ returned' = SliceTo(sorted, search_args.k)
            /\ previous_returned' = returned
            /\ search_phase' = IF search_phase = "none" THEN "once" ELSE "repeated"
            /\ UNCHANGED <<vector_results, keyword_results, search_args>>
            /\ UNCHANGED <<markdown_ast, split_result, store, handle, last_op, calls, disk, ingest>>

SearchHybridCall ==
    \E order \in Orders(DOMAIN DictOf(vector_results) \cup DOMAIN DictOf(keyword_results)) :
        SearchHybrid(order)

NextFusion == SearchHybridCall

SpecFusion == InitFusion /\ [][NextFusion]_vars

\* ---- search_hybrid on hits as any implementation of the two searches may
\* return them (the tests replace both searches): an identifier may be 0, and
\* a hit may carry no identifier field at all
UnkeyedVectorHit(distance) == [distance |-> distance]
UnkeyedKeywordHit == [content_type |-> "text"]
DistinctKeys(hits, key) ==
    \A i, j \in 1..Len(hits) :
        (i # j /\ Get(hits[i], key) # None) => Get(hits[i], key) # Get(hits[j], key)
KeyedVectorHitLists ==
    {hits \in UNION {[1..n -> {VectorHit(id, d) : id \in 0..MaxId, d \in Distances}
                              \cup {UnkeyedVectorHit(d) : d \in Distances}]
                        : n \in 0..MaxId} :
        /\ DistinctKeys(hits, "text_unit_id")
        /\ \A i \in 1..(Len(hits) - 1) : hits[i].distance <= hits[i + 1].distance}
KeyedKeywordHitLists ==
    {hits \in UNION {[1..n -> {KeywordHit(id) : id \in 0..MaxId} \cup {UnkeyedKeywordHit}]
                        : n \in 0..MaxId} :
        DistinctKeys(hits, "id")}

InitFusionKeys ==
    /\ markdown_ast = <<>>
    /\ split_result = NoResult
    /\ documents = {} /\ text_units = {} /\ text_units_vec = {}
    /\ handle = NoHandle
    /\ last_op = NoOp
    /\ calls = <<>>
    /\ DiskOf("db")
    /\ NoIngest
    /\ \E k \in 0..MaxK :
          /\ search_args = [k |-> k, vector_weight |-> One, keyword_weight |-> One]
          /\ vector_results \in {hits \in KeyedVectorHitLists : Len(hits) <= k * 2}
    /\ keyword_results \in KeyedKeywordHitLists
    /\ processed_results = <<>> /\ returned = <<>> /\ previous_returned = <<>>
    /\ search_phase = "none"

SpecFusionKeys == InitFusionKeys /\ [][NextFusion]_vars

\* ------------------------------------------- searches on a populated store
MaxKeywords == 2    \* the extracted keyword list has at most this many keywords

RECURSIVE Chars(_)
\* the characters of a str, one by one
Chars(text) ==
    IF text = <<>> THEN <<>>
    ELSE [i \in 1..Head(text).n |-> Head(text).c] \o Chars(Tail(text))

\* sqlite's LIKE (database.py line 352; no ESCAPE clause, no
\* case_sensitive_like pragma): % stands for any run of characters, _ for any
\* one character, and ASCII letters match without regard to case
LikeFold(c) ==
    CASE c = "A" -> "a" [] c = "B" -> "b" [] c = "X" -> "x" [] c = "Y" -> "y" [] OTHER -> c
RECURSIVE Like(_, _)
Like(pattern, chars) ==
    IF pattern = <<>> THEN chars = <<>>
    ELSE IF Head(pattern) = "%"
         THEN Like(Tail(pattern), chars) \/ (chars # <<>> /\ Like(pattern, Tail(chars)))
    ELSE IF chars = <<>> THEN FALSE
    ELSE /\ Head(pattern) = "_" \/ LikeFold(Head(pattern)) = LikeFold(Head(chars))
         /\ Like(Tail(pattern), Tail(chars))

RECURSIVE OrderedRows(_)
\* ORDER BY tu.document_id, tu.sequence (line 363)
OrderedRows(rows) ==
    IF rows = {} THEN <<>>
    ELSE LET first == CHOOSE r \in rows : \A q \in rows :
                          \/ r.document_id < q.document_id
                          \/ r.document_id = q.document_id /\ r.sequence <= q.sequence
         IN  <<first>> \o OrderedRows(rows \ {first})

\* Database.search_text_units_by_keywords, lines 345-380: keywords are strs
\* given by their characters
search_text_units_by_keywords(tus, keywords) ==
    IF keywords = <<>> THEN <<>>
    ELSE OrderedRows({tu \in tus :
            \E n \in 1..Len(keywords) :
                Like(<<"%">> \o keywords[n] \o <<"%">>, Chars(tu.content))})

\* what ask_chatgpt returns to search_by_keyword (line 338): "" ("empty"),
\* text that is no JSON, JSON that is no object, an object without
\* "keywords", an object whose "keywords" is no list, or an object with a
\* list of keywords
Keywords == {<<"a">>, <<"z">>, <<"_">>}
ExtractionOutput(kind, keywords) == [kind |-> kind, keywords |-> keywords]
MalformedKinds == {"empty", "invalid_json", "not_object", "no_keywords", "keywords_not_list"}
ExtractionOutputs ==
    {ExtractionOutput(kind, <<>>) : kind \in MalformedKinds}
    \cup {ExtractionOutput("keywords", kws) :
            kws \in UNION {[1..n -> Keywords] : n \in 0..MaxKeywords}}

ExtractedKeywordsOfAnyValue(output) ==
    CASE output.kind = "keywords" -> output.keywords
      [] output.kind = "keywords_not_list" -> <<<<"a">>>>
      [] OTHER -> <<>>

\* lines 344-354: the keyword list search_by_keyword hands to the database
ExtractedKeywords(output) == IF output.kind = "keywords" THEN output.keywords ELSE <<>>

\* Project.search_by_keyword, lines 334-355
search_by_keyword(tus, output) == search_text_units_by_keywords(tus, ExtractedKeywords(output))

\* Database.search_text_units_by_vector, lines 315-343: the k stored text
\* units nearest to the query (fewer if fewer are stored), nearest first;
\* distance[id] is the embedding model's distance of the query to unit id
search_text_units_by_vector(docs, tus, vecs, distance, k) ==
    LET ids == {v.rowid : v \in vecs} \cap
               {tu.id : tu \in {t \in tus : HasDocument(docs, t.document_id)}}
        n == MinOf(k, Cardinality(ids))
    IN  {hits \in [1..n -> {VectorHit(id, distance[id]) : id \in ids}] :
            /\ Injective(hits, "text_unit_id")
            /\ \A i \in 1..(n - 1) : hits[i].distance <= hits[i + 1].distance
            /\ \A id \in ids \ {hits[i].text_unit_id : i \in 1..n} :
                  \A i \in 1..n : hits[i].distance <= distance[id]}

\* the stored documents: "ab\n# A\nxy" gives the units "ab\n" and "# A\nxy\n",
\* "AB" the unit "AB\n"
Text_Search1 == "ab\n# A\nxy"
Text_Search2 == "AB"
SearchAst(markdown_text) ==
    IF markdown_text = Text_Search1
    THEN <<ParagraphNode(<<TextNode(Str(<<"a", "b">>))>>),
           HeadingNode(1, <<TextNode(Str_A)>>),
           ParagraphNode(<<TextNode(Str(<<"x", "y">>))>>)>>
    ELSE <<ParagraphNode(<<TextNode(Str(<<"A", "B">>))>>)>>
\* the store after add_document of the given texts, in this order
RECURSIVE StoreOf(_)
StoreOf(texts) ==
    IF texts = <<>> THEN [documents |-> {}, text_units |-> {}, text_units_vec |-> {}]
    ELSE LET before == StoreOf(SubSeq(texts, 1, Len(texts) - 1))
             text == texts[Len(texts)]
             units == split_text_unit(SearchAst(text), <<>>).units
         IN  insert_document_with_embeddings(before.documents, before.text_units,
                 before.text_units_vec, "s.md", "docs/s.md", text, units, EmbeddingsOf(units))
SearchStores ==
    {StoreOf(texts) : texts \in {<<>>, <<Text_Search2>>, <<Text_Search2, Text_Search1>>}}

\* a store and a query: k, what the keyword extraction answers to the query,
\* and the distance of the query to every stored text unit
InitSearch ==
    /\ markdown_ast = <<>>
    /\ split_result = NoResult
    /\ \E st \in SearchStores :
          /\ documents = st.documents
          /\ text_units = st.text_units
          /\ text_units_vec = st.text_units_vec
    /\ handle = NoHandle
    /\ last_op = NoOp
    /\ calls = <<>>
    /\ DiskOf("db")
    /\ NoIngest
    /\ \E k \in 0..MaxK, output \in ExtractionOutputs :
       \E distance \in [Ids(text_units) -> {0, 100000}] :
          search_args = [k |-> k, vector_weight |-> Ratio(100, 1),
                         keyword_weight |-> Ratio(3, 10),
                         extraction |-> output, distance |-> distance]
    /\ vector_results = <<>> /\ keyword_results = <<>>
    /\ processed_results = <<>> /\ returned = <<>> /\ previous_returned = <<>>
    /\ search_phase = "none"

\* Project.search_by_keyword(query), lines 334-355
SearchByKeyword ==
    /\ keyword_results' = search_by_keyword(text_units, search_args.extraction)
    /\ last_op' = [op |-> "search_by_keyword", status |-> "ok"]
    /\ vector_results' = <<>> /\ processed_results' = <<>> /\ returned' = <<>>
    /\ UNCHANGED <<search_args, previous_returned, search_phase>>
    /\ UNCHANGED <<markdown_ast, split_result, store, handle, calls, disk, ingest>>

VectorLimitK(k) == k

\* line 370: the limit search_hybrid(query, k) gives search_by_vector
VectorLimit(k) == k * 2

\* Project.search_hybrid(query, k), lines 357-420, with the default weights
SearchHybridQuery ==
    \E v_results \in search_text_units_by_vector(documents, text_units, text_units_vec,
                                          search_args.distance, VectorLimit(search_args.k)) :
    \E kw_results \in {search_by_keyword(text_units, search_args.extraction)} :
    \E order \in Orders(DOMAIN DictOf(v_results) \cup DOMAIN DictOf(kw_results)) :
    \E sorted \in {SortDescending([i \in 1..Len(order) |->
                      ResultItem(order[i], DictOf(v_results), DictOf(kw_results),
                                 search_args.vector_weight, search_args.keyword_weight)])} :
        /\ vector_results' = v_results
        /\ keyword_results' = kw_results
        /\ processed_results' = sorted
        /\ returned' = SliceTo(sorted, search_args.k)
        /\ last_op' = [op |-> "search_hybrid", status |-> "ok"]
        \* lines 370-371: the two searches, before anything else
        /\ calls' = <<[search |-> "search_by_vector", k |-> VectorLimit(search_args.k)],
                      [search |-> "search_by_keyword"]>>
        /\ UNCHANGED <<search_args, previous_returned, search_phase>>
        /\ UNCHANGED <<markdown_ast, split_result, store, handle, disk, ingest>>

NextSearch ==
    \/ SearchByKeyword
    \/ SearchHybridQuery

SpecSearch == InitSearch /\ [][NextSearch]_vars

\* ------------------------------------------------ concurrent add_document
\* Two add_document calls on one project database.  Each call opens its own
\* connection (database.py line 221) and runs its INSERT statements one by
\* one in one transaction, committed at line 274; the calls interleave
\* between statements.
Procs == {1, 2}
OtherProc(p) == 3 - p

\* line 221: a fresh connection; nothing written, no lastrowid read
NewConnection(path) ==
    [pc |-> "start", path |-> path, units |-> <<>>, document_id |-> 0,
     text_unit_ids |-> <<>>, vec_done |-> 0,
     documents |-> {}, text_units |-> {}, text_units_vec |-> {}]

LockFree(lock, p) == TRUE

\* sqlite lets one connection write at a time: the first INSERT of a
\* transaction takes the database's write lock, which is kept until the
\* transaction ends
CanWrite(lock, p) == lock \in {0, p}

\* lines 225-272: the next INSERT of connection c, which sees the committed
\* rows docs and tus and its own
NextStatement(c, docs, tus) ==
    IF c.document_id = 0
    THEN LET document_id == NextRowId(Ids(docs \cup c.documents))       \* line 234
         IN  [c EXCEPT !.document_id = document_id,
                       !.documents = {[id |-> document_id, name |-> PathName(c.path),
                                       path |-> c.path, unit_count |-> Len(c.units),
                                       content |-> FileContent(c.path)]}]
    ELSE IF Len(c.text_unit_ids) < Len(c.units)
    THEN LET unit == c.units[Len(c.text_unit_ids) + 1]
             tu_id == NextRowId(Ids(tus \cup c.text_units))             \* line 256
         IN  [c EXCEPT !.text_unit_ids = Append(@, tu_id),
                       !.text_units = @ \cup {[id |-> tu_id, document_id |-> c.document_id,
                                               sequence |-> unit.sequence,
                                               content |-> unit.content,
                                               content_type |-> unit.content_type]}]
    ELSE LET i == c.vec_done + 1
         IN  [c EXCEPT !.vec_done = i,
                       !.text_units_vec = @ \cup {[rowid |-> c.text_unit_ids[i],
                                                   embedding |-> EmbeddingsOf(c.units)[i]]}]

\* every statement of lines 225-272 has run
StatementsRun(c) ==
    /\ c.document_id # 0
    /\ Len(c.text_unit_ids) = Len(c.units)
    /\ c.vec_done = Len(c.units)

\* the store before the two calls: empty, or one document of one text unit
IngestStores == {StoreOf(texts) : texts \in {<<>>, <<Text_Search2>>}}

InitIngest ==
    /\ markdown_ast = <<>>
    /\ split_result = NoResult
    /\ \E st \in IngestStores :
          /\ documents = st.documents
          /\ text_units = st.text_units
          /\ text_units_vec = st.text_units_vec
    /\ handle = NoHandle
    /\ last_op = NoOp
    /\ calls = <<>>
    /\ DiskOf("db")
    /\ NoSearch
    \* the two calls add different documents
    /\ \E path \in Paths :
          connections = [p \in Procs |-> NewConnection(IF p = 1 THEN path
                                                       ELSE CHOOSE q \in Paths : q # path)]
    /\ write_lock = 0

IngestFrame == <<markdown_ast, split_result, handle, last_op, search, calls, disk>>

\* Project.add_document, lines 256-266: the file is read, split and embedded
\* before the database is touched
IngestPrepare(p, resp) ==
    /\ connections[p].pc = "start"
    /\ \E r \in {SplitTextUnitOf[FileContent(connections[p].path)][resp]} :
          connections' = [connections EXCEPT ![p] =
                             IF r.err THEN [@ EXCEPT !.pc = "raised"]
                             ELSE [@ EXCEPT !.pc = "insert", !.units = r.units]]
    /\ UNCHANGED <<store, write_lock, IngestFrame>>

\* one INSERT of insert_document_with_embeddings, lines 225-272
IngestInsert(p) ==
    /\ connections[p].pc = "insert"
    /\ CanWrite(write_lock, p)
    /\ write_lock' = p
    /\ \E c \in {NextStatement(connections[p], documents, text_units)} :
          connections' = [connections EXCEPT ![p] =
                             IF StatementsRun(c) THEN [c EXCEPT !.pc = "commit"] ELSE c]
    /\ UNCHANGED <<store, IngestFrame>>

\* line 22, timeout=10: the first INSERT waits for the write lock of the other
\* connection and raises OperationalError (database is locked) when it is
\* still held after ten seconds
IngestLocked(p) ==
    /\ connections[p].pc = "insert"
    /\ ~CanWrite(write_lock, p)
    /\ connections' = [connections EXCEPT ![p].pc = "raised"]
    /\ UNCHANGED <<store, write_lock, IngestFrame>>

\* a statement or the commit raises: the connection is dropped with its
\* transaction open, which rolls it back
IngestAbort(p) ==
    /\ connections[p].pc \in {"insert", "commit"}
    /\ CanWrite(write_lock, p)
    /\ connections' = [connections EXCEPT ![p] =
                          [@ EXCEPT !.pc = "raised", !.documents = {},
                                    !.text_units = {}, !.text_units_vec = {}]]
    /\ write_lock' = IF write_lock = p THEN 0 ELSE write_lock
    /\ UNCHANGED <<store, IngestFrame>>

\* conn.commit(), line 274
IngestCommit(p) ==
    /\ connections[p].pc = "commit"
    /\ documents' = documents \cup connections[p].documents
    /\ text_units' = text_units \cup connections[p].text_units
    /\ text_units_vec' = text_units_vec \cup connections[p].text_units_vec
    /\ connections' = [connections EXCEPT ![p] =
                          [@ EXCEPT !.pc = "reload", !.documents = {},
                                    !.text_units = {}, !.text_units_vec = {}]]
    /\ write_lock' = IF write_lock = p THEN 0 ELSE write_lock
    /\ UNCHANGED IngestFrame

\* return Document(self.database, document_id), line 275: Document._reload
\* reads the rows back; a read waits while the other connection writes its
\* pages to the file, and raises OperationalError after ten seconds
IngestReload(p) ==
    /\ connections[p].pc = "reload"
    /\ \/ connections' = [connections EXCEPT ![p].pc = "returned"]
       \/ /\ write_lock = OtherProc(p)
          /\ connections' = [connections EXCEPT ![p].pc = "raised"]
    /\ UNCHANGED <<store, write_lock, IngestFrame>>

IngestPrepareCall ==
    \E p \in Procs :
        \E resp \in SplitterRepliesOf[FileContent(connections[p].path)] :
            IngestPrepare(p, resp)
IngestInsertCall == \E p \in Procs : IngestInsert(p)
IngestLockedCall == \E p \in Procs : IngestLocked(p)
IngestAbortCall == \E p \in Procs : IngestAbort(p)
IngestCommitCall == \E p \in Procs : IngestCommit(p)
IngestReloadCall == \E p \in Procs : IngestReload(p)

NextIngest ==
    \/ IngestPrepareCall
    \/ IngestInsertCall
    \/ IngestLockedCall
    \/ IngestAbortCall
    \/ IngestCommitCall
    \/ IngestReloadCall

SpecIngest == InitIngest /\ [][NextIngest]_vars

\* =================================================================== claims
\* What the markdown nesting rule says of the flat AST, without the tree:
\* the scope of block i is the nearest preceding heading (0: the root), the
\* parent of heading j the nearest preceding heading of strictly smaller level.
IsHeadingAt(ast, i) == ast[i].type = "heading"
MaxOrZero(S) == IF S = {} THEN 0 ELSE CHOOSE m \in S : \A x \in S : x <= m
ScopeOf(ast, i) == MaxOrZero({j \in 1..(i - 1) : IsHeadingAt(ast, j)})
ParentOf(ast, j) ==
    MaxOrZero({i \in 1..(j - 1) : IsHeadingAt(ast, i) /\ ast[i].level < ast[j].level})

RECURSIVE PathOf(_, _)
\* the rendered headings of the scopes open inside scope j, outer to inner
PathOf(ast, j) ==
    IF j = 0 THEN <<>>
    ELSE Flatten(<<PathOf(ast, ParentOf(ast, j)), HeadingText(ast[j]), Rep(NL, 1)>>)

ScopeHasText(ast, j) ==
    \E i \in 1..Len(ast) :
        /\ ast[i].type = "paragraph"
        /\ ScopeOf(ast, i) = j
        /\ StripTruthy(JoinTextRaw(ast[i].children))

RECURSIVE ScopesFrom(_, _)
\* the scopes (0 and the heading positions) that directly hold text, in order
ScopesFrom(ast, j) ==
    IF j > Len(ast) THEN <<>>
    ELSE (IF (j = 0 \/ IsHeadingAt(ast, j)) /\ ScopeHasText(ast, j) THEN <<j>> ELSE <<>>)
         \o ScopesFrom(ast, j + 1)
ScopesWithText(ast) == ScopesFrom(ast, 0)

RECURSIVE LeafText(_)
\* the raw text of every text leaf below the inline nodes, in reading order
LeafText(inl) ==
    IF inl = <<>> THEN <<>>
    ELSE Cat(IF Head(inl).type = "text" THEN Head(inl).raw ELSE LeafText(Head(inl).children),
             LeafText(Tail(inl)))

RECURSIVE DocumentLeafText(_)
\* the leaf text of the non-heading blocks of the document, in reading order
DocumentLeafText(ast) ==
    IF ast = <<>> THEN <<>>
    ELSE Cat(IF Head(ast).type = "paragraph" THEN LeafText(Head(ast).children) ELSE <<>>,
             DocumentLeafText(Tail(ast)))

\* text.replace("\n", "")
WithoutNewlines(text) ==
    LET kept == SelectSeq(text, LAMBDA r : r.c # NL)
    IN  Flatten([i \in 1..Len(kept) |-> <<kept[i]>>])

Decomposed == split_result.status = "done" /\ ~split_result.err

\* the flush (call of _append_text_unit) that appended unit u
FlushOfUnit(u) ==
    CHOOSE k \in 1..Len(split_result.flushes) :
        /\ split_result.flushes[k].first <= u
        /\ u < split_result.flushes[k].first + split_result.flushes[k].count
\* content with the heading prefix of its flush removed
BodyOfUnit(u) ==
    Drop(split_result.units[u].content,
         StrLen(split_result.flushes[FlushOfUnit(u)].heading))
UnitsOfFlush(k) ==
    [n \in 1..split_result.flushes[k].count |-> split_result.flushes[k].first + n - 1]

\* C2 (as claimed): Order preservation.  When no block was handed to the
\* splitter, the unit contents without their heading prefixes, concatenated in
\* sequence order (and without the block-separating newlines the code adds),
\* are the leaf text of the document's non-heading blocks in reading order.
C2_OrderPreservation ==
    (Decomposed /\ split_result.ncalls = 0) =>
        WithoutNewlines(Flatten([u \in 1..Len(split_result.units) |-> BodyOfUnit(u)]))
            = DocumentLeafText(markdown_ast)

\* C3 (as claimed): Size ceiling.  Every unit has at most MaxUnitLength
\* characters of content (heading prefix included), or it comes from a split
\* whose sub-chunks concatenate back to the body text given to the splitter.
C3_SizeCeiling ==
    Decomposed =>
        \A u \in 1..Len(split_result.units) :
            \/ StrLen(split_result.units[u].content) <= MaxUnitLength
            \/ LET f == split_result.flushes[FlushOfUnit(u)]
               IN  /\ f.split
                   /\ Flatten([n \in 1..f.count |->
                                 BodyOfUnit(UnitsOfFlush(FlushOfUnit(u))[n])]) = f.text

\* C4: Heading-path correctness.  The k-th block flushed belongs to the k-th
\* scope that directly holds text; its prefix is the concatenation, outer to
\* inner, of the rendered headings open in that scope, each followed by a
\* newline (empty for content before the first heading), and every unit made
\* from the block starts with that prefix.
C4_HeadingPath ==
    split_result.status = "done" =>
        LET E == ScopesWithText(markdown_ast)
            F == split_result.flushes
        IN  /\ Len(F) <= Len(E)
            /\ \A k \in 1..Len(F) :
                  /\ F[k].heading = PathOf(markdown_ast, E[k])
                  /\ (E[k] = 0 => F[k].heading = <<>>)
                  /\ ~split_result.err =>
                        \A n \in 1..F[k].count :
                            Take(split_result.units[UnitsOfFlush(k)[n]].content,
                                 StrLen(F[k].heading)) = F[k].heading

\* C4 witness: a block before the first heading and a block under three
\* nested headings have been flushed
C4_Witness ==
    /\ Decomposed
    /\ \E k \in 1..Len(split_result.flushes) : split_result.flushes[k].heading = <<>>
    /\ \E k \in 1..Len(split_result.flushes) :
          split_result.flushes[k].heading
              = Str(<<"#", " ", "A", NL, "#", "#", " ", "B", NL, "#", "#", "#", " ", "A", NL>>)

Str_unit1 == Str(<<"#", " ", "A", NL, "p", "a", "r", "a", "1">>)
Str_unit2 == Str(<<"#", "#", " ", "B", NL, "p", "a", "r", "a", "2">>)

\* C5 (as claimed): "# A\npara1\n## B\npara2" gives exactly two units,
\* "# A\npara1" with heading path "" and "## B\npara2" with heading path
\* "# A\n", sequences 0 and 1.
C5_ScenarioAsClaimed ==
    (markdown_ast = ScenarioAst /\ split_result.status = "done") =>
        /\ ~split_result.err
        /\ Len(split_result.units) = 2
        /\ split_result.units[1].content = Str_unit1
        /\ split_result.units[2].content = Str_unit2
        /\ split_result.flushes[1].heading = <<>>
        /\ split_result.flushes[2].heading = Str(<<"#", " ", "A", NL>>)
        /\ split_result.units[1].sequence = 0
        /\ split_result.units[2].sequence = 1

\* C5 (amended): the scenario gives exactly two units, "# A\npara1\n" with
\* prefix "# A\n" and "# A\n## B\npara2\n" with prefix "# A\n## B\n",
\* content type "text", sequences 0 and 1 in that order.
C5_Scenario ==
    (markdown_ast = ScenarioAst /\ split_result.status = "done") =>
        /\ ~split_result.err
        /\ split_result.units =
              <<[content |-> Cat(Str_unit1, Rep(NL, 1)), content_type |-> "text",
                 sequence |-> 0],
                [content |-> Flatten(<<Str(<<"#", " ", "A", NL>>), Str_unit2, Rep(NL, 1)>>),
                 content_type |-> "text", sequence |-> 1]>>
        /\ split_result.flushes[1].heading = Str(<<"#", " ", "A", NL>>)
        /\ split_result.flushes[2].heading = Str(<<"#", " ", "A", NL, "#", "#", " ", "B", NL>>)

C5_Witness == markdown_ast = ScenarioAst /\ Decomposed /\ Len(split_result.units) = 2

\* the text_units rows of a stored document
RowsOf(document_id) == {t \in text_units : t.document_id = document_id}

\* C1: Sequence contiguity.  The list split_text_unit returns has sequence i
\* at list index i (0-based), also when blocks were replaced by several
\* splitter sub-chunks; and every stored document has exactly unit_count
\* text_units rows, whose sequences are exactly 0..unit_count-1.
C1_SequenceContiguity ==
    /\ (split_result.status = "done" /\ ~split_result.err) =>
            \A i \in 1..Len(split_result.units) : split_result.units[i].sequence = i - 1
    /\ \A d \in documents :
            /\ Cardinality(RowsOf(d.id)) = d.unit_count
            /\ {t.sequence : t \in RowsOf(d.id)} = 0..(d.unit_count - 1)

\* C1 witness: update_content has stored a generation of three units, two of
\* them sub-chunks of one split block, on rowids that do not start at 1
C1_Witness ==
    /\ last_op = [op |-> "update_content", status |-> "ok"]
    /\ split_result.ncalls > 0
    /\ \E d \in documents :
          /\ d.id = handle.document_id
          /\ d.unit_count = 3
          /\ \E t \in RowsOf(d.id) : t.sequence = 0 /\ t.id > 1

\* the splitter replies that are a failure or malformed output
FailureKinds == {"raise", "invalid_json", "not_object", "chunks_not_list", "chunk_without_text"}
\* the last ingestion handed a block to the splitter and got such a reply
SplitterFailed ==
    /\ last_op.op \in {"add_document", "update_content"}
    /\ \E k \in 1..Len(split_result.flushes) :
          split_result.flushes[k].split /\ split_result.flushes[k].kind \in FailureKinds

\* C6 (as claimed): No silent content loss on splitter failure.  When the
\* splitter call for an oversized block fails or returns malformed output, the
\* ingestion ends with an error; it never completes successfully.
C6_NoSilentLoss == SplitterFailed => last_op.status = "error"

\* ---- search_hybrid
\* the identifiers of the two hit lists, and the hits of an identifier
VectorIds == {vector_results[i].text_unit_id : i \in 1..Len(vector_results)}
KeywordIds == {keyword_results[i].id : i \in 1..Len(keyword_results)}
UnionIds == VectorIds \cup KeywordIds
DistanceOf(id) ==
    vector_results[CHOOSE i \in 1..Len(vector_results) :
                       vector_results[i].text_unit_id = id].distance
\* the identifier a produced record carries
IdOf(record) ==
    IF "text_unit_id" \in DOMAIN record THEN record.text_unit_id ELSE record.id
IdsOf(records) == [i \in 1..Len(records) |-> IdOf(records[i])]
Searched == search_phase # "none"

\* C7: Hybrid scoring.  search_hybrid produces exactly one record for every
\* identifier of the union of the vector hits and the keyword hits; its
\* vector_score is 1/(distance + 1e-6) if the identifier has a vector hit and
\* 0 otherwise, its keyword_score 1 if it has a keyword hit and 0 otherwise,
\* its hybrid_score vector_weight * vector_score + keyword_weight *
\* keyword_score; a vector hit of distance 0 without a keyword hit scores
\* vector_weight / 1e-6.
C7_HybridScoring ==
    Searched =>
        /\ Len(processed_results) = Cardinality(UnionIds)
        /\ \A id \in UnionIds :
              \E j \in 1..Len(processed_results) :
                  LET record == processed_results[j]
                  IN  /\ IdOf(record) = id
                      /\ record.vector_score =
                            IF id \in VectorIds
                            THEN Ratio(MicroUnits, DistanceOf(id) + 1) ELSE Zero
                      /\ record.keyword_score = IF id \in KeywordIds THEN One ELSE Zero
                      /\ record.hybrid_score =
                            AddR(MulR(search_args.vector_weight, record.vector_score),
                                 MulR(search_args.keyword_weight, record.keyword_score))
                      /\ (id \in VectorIds \ KeywordIds /\ DistanceOf(id) = 0) =>
                            record.hybrid_score =
                                Ratio(search_args.vector_weight.num * MicroUnits,
                                      search_args.vector_weight.den)

\* C7 witness: under the default weights a record was returned for a vector
\* hit of distance 0 without keyword hit, next to one for a keyword-only hit
C7_Witness ==
    /\ Searched
    /\ search_args.vector_weight = Ratio(100, 1)
    /\ \E i, j \in 1..Len(returned) :
          /\ IdOf(returned[i]) \in VectorIds \ KeywordIds
          /\ DistanceOf(IdOf(returned[i])) = 0
          /\ returned[i].hybrid_score = Ratio(100 * MicroUnits, 1)
          /\ IdOf(returned[j]) \in KeywordIds \ VectorIds
          /\ returned[j].hybrid_score = Ratio(3, 10)

\* the union example: vector hit {id 1, distance 0.1}, keyword hits {id 1},
\* {id 2}, both weights 1
UnionExample ==
    /\ vector_results = <<VectorHit(1, 100000)>>
    /\ keyword_results = <<KeywordHit(1), KeywordHit(2)>>
    /\ search_args.vector_weight = One /\ search_args.keyword_weight = One

\* C8: Ranking.  The returned list is ordered by hybrid_score descending (no
\* record has a smaller score than a later one) and is a prefix of the full
\* descending ranking of the union; in the union example the order is [1, 2].
C8_Ranking ==
    Searched =>
        /\ \A i, j \in 1..Len(processed_results) :
              i < j => ~LessR(processed_results[i].hybrid_score,
                              processed_results[j].hybrid_score)
        /\ {IdOf(processed_results[i]) : i \in 1..Len(processed_results)} = UnionIds
        /\ Len(processed_results) = Cardinality(UnionIds)
        /\ Len(returned) <= Len(processed_results)
        /\ returned = SubSeq(processed_results, 1, Len(returned))
        /\ \A i, j \in 1..Len(returned) :
              i < j => ~LessR(returned[i].hybrid_score, returned[j].hybrid_score)
        /\ UnionExample => IdsOf(processed_results) = <<1, 2>>

\* C8 witness: the union example was searched with k = 2 and returned
\* the records of 1 and 2, in this order
C8_Witness ==
    /\ Searched /\ UnionExample /\ search_args.k = 2
    /\ IdsOf(returned) = <<1, 2>>
    /\ LessR(returned[2].hybrid_score, returned[1].hybrid_score)

HitKey(item) ==
    IF Get(item, "text_unit_id") # None THEN Get(item, "text_unit_id") ELSE Get(item, "id")
HitKeys == ({HitKey(vector_results[i]) : i \in 1..Len(vector_results)}
            \cup {HitKey(keyword_results[i]) : i \in 1..Len(keyword_results)}) \ {None}

\* C11 (as claimed): Identifier union.  A hit is dropped exactly when it
\* yields no non-null identifier: every hit with a non-null identifier, 0
\* included, contributes its identifier to the union, and before truncation
\* each identifier of the union appears in exactly one produced record.
C11_IdentifierUnion ==
    Searched =>
        /\ {HitKey(processed_results[j]) : j \in 1..Len(processed_results)} = HitKeys
        /\ Len(processed_results) = Cardinality(HitKeys)

\* the fields a record passes through from its hit: all but the three scores
ScoreFields == {"hybrid_score", "vector_score", "keyword_score"}
PassThrough(record) == [f \in DOMAIN record \ ScoreFields |-> record[f]]
VectorHitOf(id) ==
    vector_results[CHOOSE i \in 1..Len(vector_results) : vector_results[i].text_unit_id = id]
KeywordHitOf(id) ==
    keyword_results[CHOOSE i \in 1..Len(keyword_results) : keyword_results[i].id = id]

\* C12: Payload priority.  For every identifier of the fused result, the
\* pass-through fields of its record are those of the vector hit when the
\* identifier has a vector hit (also when it has a keyword hit too) and those
\* of the keyword hit only when it has no vector hit; the three score fields
\* are added and no pass-through field is removed or changed.
C12_PayloadPriority ==
    Searched =>
        \A j \in 1..Len(processed_results) :
            LET record == processed_results[j]
                id == IdOf(record)
            IN  /\ ScoreFields \subseteq DOMAIN record
                /\ id \in VectorIds => PassThrough(record) = VectorHitOf(id)
                /\ id \notin VectorIds =>
                      id \in KeywordIds /\ PassThrough(record) = KeywordHitOf(id)

\* C12 witness: an identifier with both a vector and a keyword hit was
\* returned with the vector hit's fields, next to a keyword-only identifier
\* returned with the keyword hit's fields
C12_Witness ==
    /\ Searched
    /\ \E i, j \in 1..Len(returned) :
          /\ IdOf(returned[i]) \in VectorIds \cap KeywordIds
          /\ DOMAIN returned[i] = {"text_unit_id", "distance"} \cup ScoreFields
          /\ returned[i].distance = DistanceOf(IdOf(returned[i]))
          /\ IdOf(returned[j]) \in KeywordIds \ VectorIds
          /\ DOMAIN returned[j] = {"id", "content_type"} \cup ScoreFields

\* ---- searches on a populated store
MalformedExtraction ==
    /\ last_op.op \in {"search_by_keyword", "search_hybrid"}
    /\ search_args.extraction.kind \in MalformedKinds

\* C13: Keyword degradation.  When the keyword-extraction output is empty, is
\* no JSON, or is JSON without a list under "keywords", search_by_keyword
\* returns the empty list without raising, and search_hybrid still returns
\* the vector hits ranked by vector score alone: one record per vector hit,
\* each with keyword_score 0 and hybrid_score vector_weight * vector_score,
\* in descending order of vector score, cut to k.
C13_KeywordDegradation ==
    MalformedExtraction =>
        /\ last_op.status = "ok"
        /\ keyword_results = <<>>
        /\ last_op.op = "search_hybrid" =>
              /\ {IdOf(processed_results[j]) : j \in 1..Len(processed_results)} = VectorIds
              /\ Len(processed_results) = Cardinality(VectorIds)
              /\ \A j \in 1..Len(processed_results) :
                    /\ processed_results[j].keyword_score = Zero
                    /\ processed_results[j].vector_score =
                          Ratio(MicroUnits, DistanceOf(IdOf(processed_results[j])) + 1)
                    /\ processed_results[j].hybrid_score =
                          MulR(search_args.vector_weight, processed_results[j].vector_score)
              /\ \A i, j \in 1..Len(processed_results) :
                    i < j => ~LessR(processed_results[i].vector_score,
                                    processed_results[j].vector_score)
              /\ returned = SubSeq(processed_results, 1,
                                   MinOf(search_args.k, Len(processed_results)))

\* C13 witness: the extraction answered with an object whose "keywords" is no
\* list; search_hybrid returned two vector hits, the nearer first, with
\* keyword_score 0, from a store in which "a" or "_" would have matched
C13_Witness ==
    /\ last_op = [op |-> "search_hybrid", status |-> "ok"]
    /\ search_args.extraction.kind = "keywords_not_list"
    /\ keyword_results = <<>>
    /\ search_text_units_by_keywords(text_units, <<<<"a">>>>) # <<>>
    /\ Len(returned) = 2
    /\ LessR(returned[2].vector_score, returned[1].vector_score)
    /\ returned[1].keyword_score = Zero /\ returned[2].keyword_score = Zero

\* keyword occurs in chars as a contiguous run, character for character
Contains(chars, keyword) ==
    \E i \in 1..(Len(chars) - Len(keyword) + 1) :
        SubSeq(chars, i, i + Len(keyword) - 1) = keyword

\* C20 (as claimed): Keyword search semantics.  search_text_units_by_keywords
\* returns exactly the stored text units whose content contains at least one
\* of the keywords as a case-sensitive substring, ordered by document id then
\* sequence, and the empty list for an empty keyword list.
C20_KeywordSearch ==
    (last_op.op = "search_by_keyword" /\ search_args.extraction.kind = "keywords") =>
        LET keywords == search_args.extraction.keywords
        IN  /\ {keyword_results[i] : i \in 1..Len(keyword_results)} =
                  {tu \in text_units :
                      \E n \in 1..Len(keywords) : Contains(Chars(tu.content), keywords[n])}
            /\ \A i, j \in 1..Len(keyword_results) :
                  i < j =>
                      \/ keyword_results[i].document_id < keyword_results[j].document_id
                      \/ /\ keyword_results[i].document_id = keyword_results[j].document_id
                         /\ keyword_results[i].sequence < keyword_results[j].sequence
            /\ keywords = <<>> => keyword_results = <<>>

\* ---- storage
\* the text units of a document and the embeddings keyed by their ids
UnitsIn(tus, document_id) == {t \in tus : t.document_id = document_id}
EmbeddingsIn(tus, vecs, document_id) ==
    {v \in vecs : v.rowid \in Ids(UnitsIn(tus, document_id))}
\* the stored units of a document in sequence order, as split_text_unit gives them
SequenceOf(tus, document_id) ==
    [i \in 1..Cardinality(UnitsIn(tus, document_id)) |->
        LET t == CHOOSE t \in UnitsIn(tus, document_id) : t.sequence = i - 1
        IN  [content |-> t.content, content_type |-> t.content_type, sequence |-> t.sequence]]
\* document d is stored whole: the units split_text_unit returned, sequenced
\* from 0, and one embedding for each of them
StoredWhole(docs, tus, vecs, d, units) ==
    /\ d \in docs
    /\ d.unit_count = Len(units)
    /\ Cardinality(UnitsIn(tus, d.id)) = Len(units)
    /\ {t.sequence : t \in UnitsIn(tus, d.id)} = 0..(Len(units) - 1)
    /\ SequenceOf(tus, d.id) = units
    /\ \A t \in UnitsIn(tus, d.id) : Cardinality({v \in vecs : v.rowid = t.id}) = 1
    /\ Cardinality(EmbeddingsIn(tus, vecs, d.id)) = Len(units)

\* C14: Ingestion atomicity.  A step of add_document either adds one document
\* row with all of its text units and one embedding for each of them and
\* nothing else, or, when it fails at any step (file read, decomposition,
\* splitting, embedding, any insert), leaves the three tables exactly as they
\* were before the call.
C14_IngestionAtomicity ==
    [][last_op'.op = "add_document" =>
          IF last_op'.status = "ok"
          THEN \E d \in documents' :
                  /\ d \notin documents
                  /\ documents' = documents \cup {d}
                  /\ text_units' = text_units \cup UnitsIn(text_units', d.id)
                  /\ UnitsIn(text_units, d.id) = {}
                  /\ text_units_vec' =
                        text_units_vec \cup EmbeddingsIn(text_units', text_units_vec', d.id)
                  /\ StoredWhole(documents', text_units', text_units_vec', d, split_result'.units)
          ELSE store' = store]_vars

\* C14 witness: an add_document failed in the insert, after a first document
\* had been stored; the store holds that document alone, whole
C14_Witness ==
    /\ last_op = Failed("add_document", "insert")
    /\ Cardinality(documents) = 1
    /\ \A d \in documents :
          /\ d.unit_count = 2
          /\ Cardinality(UnitsIn(text_units, d.id)) = 2
          /\ Cardinality(EmbeddingsIn(text_units, text_units_vec, d.id)) = 2
    /\ Cardinality(text_units) = 2 /\ Cardinality(text_units_vec) = 2

\* the Document held is the stored document of its id
HandleIsStored == HasDocument(documents, handle.document_id)
                  /\ Reloaded(documents, handle.document_id) = handle
\* what a completed update_content leaves, seen from the handle it was called on
Replaced ==
    /\ handle.document_id \notin Ids(documents')
    /\ UnitsIn(text_units', handle.document_id) = {}
    /\ \E d \in documents' :
          /\ documents' \ documents = {d}
          /\ d.name = handle.name /\ d.path = handle.path
          /\ \E new_content \in NewContents :
                /\ markdown_ast' = parse_markdown(new_content)
                /\ d.content = new_content
          /\ StoredWhole(documents', text_units', text_units_vec', d, split_result'.units)
          /\ handle'.document_id = d.id /\ handle'.content = d.content
    /\ documents \ documents' = {d \in documents : d.id = handle.document_id}
    /\ \A d \in documents \ documents' :
          d.name = handle.name /\ d.path = handle.path /\ d.content = handle.content
    /\ Cardinality(documents \ documents') = 1

\* C15 (as claimed): Update replaces the generation.  After update_content
\* completes, the prior document id with its text units and embeddings is no
\* longer stored; exactly one new document exists, with the handle's name and
\* path, content new_content and the text units of split_text_unit(new_content)
\* sequenced from 0; the old generation, and nothing else, was deleted; the
\* handle's document_id and content are the new document's.
C15_UpdateReplaces ==
    [][(last_op'.op = "update_content" /\ last_op'.status = "ok") => Replaced]_vars

\* every document has as many text units as its unit_count says, every text
\* unit belongs to a stored document and has exactly one embedding keyed by
\* its id, and every embedding is keyed by the id of a stored text unit
Integrity(docs, tus, vecs) ==
    /\ \A d \in docs : d.unit_count = Cardinality(UnitsIn(tus, d.id))
    /\ \A t \in tus :
          /\ HasDocument(docs, t.document_id)
          /\ Cardinality({v \in vecs : v.rowid = t.id}) = 1
    /\ \A v \in vecs : \E t \in tus : t.id = v.rowid

\* C16 (as claimed): No orphaned generation on failed update.  When
\* update_content fails at any step (splitting, embedding, insert of the new
\* generation, delete of the old generation, reload), the store holds no
\* partially written rows, and it does not hold both the old and the new
\* generation of the document.
C16_NoOrphanedGeneration ==
    [][(last_op'.op = "update_content" /\ last_op'.status = "error") =>
          /\ Integrity(documents', text_units', text_units_vec')
          /\ ~ /\ HasDocument(documents, handle.document_id)
               /\ get_document(documents, handle.document_id) \in documents'
               /\ documents' \ documents # {}]_vars

\* C17 (as claimed): Not-found is an error.  Project.get_document and
\* Project.remove_document, called with the id of a document that is not
\* stored, end with an error; they do not return as a call on a stored
\* document does, nor with an empty result.
C17_NotFoundIsError ==
    [][\A document_id \in 1..MaxDocumentId :
          (/\ ~HasDocument(documents, document_id)
           /\ RemoveDocument(document_id) \/ GetDocument(document_id))
              => last_op'.status = "error"]_vars

\* the step removes document d with its text units and embeddings, and nothing else
Removed(d) ==
    /\ ~HasDocument(documents', d)
    /\ UnitsIn(text_units', d) = {}
    /\ \A v \in text_units_vec' : v.rowid \notin Ids(UnitsIn(text_units, d))
    /\ documents' = {x \in documents : x.id # d}
    /\ text_units' = text_units \ UnitsIn(text_units, d)
    /\ text_units_vec' = text_units_vec \ EmbeddingsIn(text_units, text_units_vec, d)
    /\ \A x \in documents' :
          /\ UnitsIn(text_units', x.id) = UnitsIn(text_units, x.id)
          /\ EmbeddingsIn(text_units', text_units_vec', x.id)
                = EmbeddingsIn(text_units, text_units_vec, x.id)

\* C18: Delete cascade and frame.  After Project.remove_document(d) or
\* Document.delete() on document d, no document row, text unit or embedding of
\* d remains, get_document(d) finds nothing, and every other document with its
\* text units and embeddings is as before.
C18_DeleteCascade ==
    [][/\ \A d \in 1..MaxDocumentId : RemoveDocument(d) => Removed(d)
       /\ DocumentDeleteCall => Removed(handle.document_id)]_vars

\* C18 witness: of two stored documents, the first was removed; the second is
\* stored with its text units and embeddings
C18_Witness ==
    /\ last_op.op \in {"remove_document", "delete"}
    /\ Ids(documents) = {2}
    /\ UnitsIn(text_units, 1) = {}
    /\ text_units # {}
    /\ Integrity(documents, text_units, text_units_vec)

\* C19: Storage integrity invariant.  After any sequence of add_document,
\* update_content and remove_document, every stored document's unit_count is
\* the number of text units stored for it, every stored text unit belongs to
\* a stored document and has exactly one embedding keyed by its id, and every
\* stored embedding is keyed by the id of a stored text unit.
C19_StorageIntegrity == Integrity(documents, text_units, text_units_vec)

\* C19 witness: an update_content has completed and replaced document 1 by
\* document 2, whose text units and embeddings have ids handed out anew
C19_Witness ==
    /\ last_op = [op |-> "update_content", status |-> "ok"]
    /\ Ids(documents) = {2}
    /\ 1 \notin Ids(text_units)
    /\ \A d \in documents : d.unit_count >= 1
    /\ Cardinality(text_units_vec) = Cardinality(text_units)

\* ---- build_tree
Handled(node) == node.type \in {"heading", "paragraph"}
\* the index in the heap bt.nodes of the item made for block i of the AST
NodeOf(ast, i) == Cardinality({j \in 1..i : Handled(ast[j])})
Range(seq) == {seq[i] : i \in 1..Len(seq)}
\* where item n hangs: the items that hold it in their children, 0 for the root list
AttachedTo(bt, n) ==
    {m \in 1..Len(bt.nodes) : n \in Range(bt.nodes[m].children)}
    \cup (IF n \in Range(bt.tree) THEN {0} ELSE {})
StackLevels(bt) == [s \in 1..Len(bt.stack) |-> bt.nodes[bt.stack[s]].level]

\* C24: Heading nesting.  After every block build_tree has consumed, the
\* stack of open headings has strictly increasing levels from bottom to top;
\* in the tree every heading hangs under the nearest preceding heading of
\* strictly smaller level (under the root when there is none), also when
\* levels are skipped, and every other block the tree holds hangs under the
\* nearest preceding heading (under the root before the first heading).
C24_HeadingNesting ==
    split_result.status = "done" =>
        /\ \A i \in 0..Len(markdown_ast) :
              LET levels == StackLevels(build_tree(SubSeq(markdown_ast, 1, i)))
              IN  \A s \in 1..(Len(levels) - 1) : levels[s] < levels[s + 1]
        /\ \A i \in 1..Len(markdown_ast) :
              Handled(markdown_ast[i]) =>
                  LET over == IF IsHeadingAt(markdown_ast, i)
                              THEN ParentOf(markdown_ast, i)
                              ELSE ScopeOf(markdown_ast, i)
                  IN  AttachedTo(build_tree(markdown_ast), NodeOf(markdown_ast, i))
                          = {IF over = 0 THEN 0 ELSE NodeOf(markdown_ast, over)}

\* C24 witness: "#", "###", "##" with a paragraph under each has been built:
\* the level-3 and the level-2 heading both hang under the level-1 heading,
\* and the last paragraph under the level-2 heading
C24_Witness ==
    /\ split_result.status = "done"
    /\ Len(markdown_ast) = 6
    /\ [i \in 1..6 |-> markdown_ast[i].level] = <<1, 0, 3, 0, 2, 0>>
    /\ AttachedTo(build_tree(markdown_ast), 3) = {1}
    /\ AttachedTo(build_tree(markdown_ast), 5) = {1}
    /\ AttachedTo(build_tree(markdown_ast), 6) = {5}

\* ---- tree_to_text_unit
RECURSIVE MergedFrom(_, _, _)
\* the text of the paragraphs directly under scope j (0: the root), from
\* block i on, each followed by a newline, in document order
MergedFrom(ast, j, i) ==
    IF i > Len(ast) THEN <<>>
    ELSE Cat(IF ast[i].type = "paragraph" /\ ScopeOf(ast, i) = j
             THEN Cat(JoinTextRaw(ast[i].children), Rep(NL, 1))
             ELSE <<>>,
             MergedFrom(ast, j, i + 1))
MergedText(ast, j) == MergedFrom(ast, j, 1)
Blank(text) == \A i \in 1..Len(text) : text[i].c \in {" ", NL, "\t"}
Scopes(ast) == {0} \cup {j \in 1..Len(ast) : IsHeadingAt(ast, j)}
\* the scopes whose directly contained text is not blank, in document order
RECURSIVE InOrder(_)
InOrder(S) ==
    IF S = {} THEN <<>>
    ELSE LET least == CHOOSE x \in S : \A y \in S : x <= y
         IN  <<least>> \o InOrder(S \ {least})
FilledScopes(ast) == InOrder({j \in Scopes(ast) : ~Blank(MergedText(ast, j))})
NoOversizedBlock(ast) == \A j \in Scopes(ast) : StrLen(MergedText(ast, j)) <= MaxUnitLength

\* C25: Block merging and no empty blocks.  When no scope's merged text is
\* longer than MaxUnitLength, the units are, in document order, one per
\* scope (root or heading) whose directly contained text is not blank: the
\* scope's heading path followed by the texts of all paragraphs directly
\* under it, merged in document order; a scope with empty or whitespace-only
\* text (a heading directly followed by a heading) has no unit; every unit
\* has content_type "text".
C25_BlockMerging ==
    (split_result.status = "done" /\ NoOversizedBlock(markdown_ast)) =>
        LET filled == FilledScopes(markdown_ast)
        IN  /\ ~split_result.err
            /\ Len(split_result.units) = Len(filled)
            /\ \A k \in 1..Len(filled) :
                  /\ split_result.units[k].content
                        = Cat(PathOf(markdown_ast, filled[k]),
                              MergedText(markdown_ast, filled[k]))
                  /\ split_result.units[k].content_type = "text"

\* C25 witness: a decomposed document of two paragraphs and a heading with
\* nothing under it: the paragraphs are merged into the one unit there is
C25_Witness ==
    /\ Decomposed /\ NoOversizedBlock(markdown_ast)
    /\ Len(markdown_ast) = 3
    /\ Cardinality({i \in 1..3 : markdown_ast[i].type = "paragraph"
                                 /\ ScopeOf(markdown_ast, i) = 0}) = 2
    /\ \E j \in Scopes(markdown_ast) : j # 0 /\ MergedText(markdown_ast, j) = <<>>
    /\ Len(split_result.units) = 1

Oversized(ast, j) == StrLen(MergedText(ast, j)) > MaxUnitLength
\* the chunks the splitter returned for the block of flush f
ReturnedChunks(f) == split_long_text(SplitterReply(f.kind, f.text)).chunks

\* C26: Split replacement.  Every block (merged text of a scope) of more
\* than MaxUnitLength characters is handed to the splitter exactly once, as
\* the body text without the heading prefix; the returned sub-chunks become
\* units that stand consecutively at the block's position, in the returned
\* order, each heading prefix + sub-chunk text with content_type "text"; a
\* block that is not oversized is one unit, and the units of the blocks stand
\* in the order of the blocks.
C26_SplitReplacement ==
    Decomposed =>
        LET filled == FilledScopes(markdown_ast)
            F == split_result.flushes
        IN  /\ Len(F) = Len(filled)
            /\ split_result.ncalls
                  = Cardinality({k \in 1..Len(filled) : Oversized(markdown_ast, filled[k])})
            /\ \A k \in 1..Len(F) :
                  /\ F[k].first = IF k = 1 THEN 1 ELSE F[k - 1].first + F[k - 1].count
                  /\ F[k].split = Oversized(markdown_ast, filled[k])
                  /\ F[k].text = MergedText(markdown_ast, filled[k])
                  /\ F[k].count = IF F[k].split THEN Len(ReturnedChunks(F[k])) ELSE 1
                  /\ \A n \in 1..F[k].count :
                        split_result.units[F[k].first + n - 1] =
                            [content |-> Cat(PathOf(markdown_ast, filled[k]),
                                             IF F[k].split THEN ReturnedChunks(F[k])[n].text
                                             ELSE F[k].text),
                             content_type |-> "text",
                             sequence |-> F[k].first + n - 2]
            /\ Len(split_result.units)
                  = IF F = <<>> THEN 0 ELSE F[Len(F)].first + F[Len(F)].count - 1

\* C26 witness: a block under "# A" was split in two sub-chunks, which are
\* the second and third of four units, between the unit of the block before
\* the heading and the unit of the block under "# B"
C26_Witness ==
    /\ Decomposed
    /\ Len(split_result.flushes) = 3
    /\ split_result.flushes[2].split /\ split_result.flushes[2].count = 2
    /\ split_result.flushes[2].heading = Str(<<"#", " ", "A", NL>>)
    /\ Len(split_result.units) = 4
    /\ split_result.units[2].content
          = Cat(Str(<<"#", " ", "A", NL>>), Rep("x", (MaxUnitLength + 6) \div 2))
    /\ split_result.units[4].content = Str(<<"#", " ", "B", NL, "p", "a", "r", "a", "1", NL>>)

\* ---- the database files
\* C29 (as claimed): update_content changes only the database of the project
\* the document belongs to.  A step of update_content leaves every other
\* database file as it was (it creates, modifies and removes none), so every
\* directory lists the same projects after the step as before it.
C29_UpdateContentFrame ==
    [][UpdateContentCall =>
          /\ \A key \in Dirs \X ProjectIds :
                key # <<project.dir, project.id>> => files'[key] = files[key]
          /\ \A dir \in Dirs : ListedIds(files', dir) = ListedIds(files, dir)]_vars

\* C30 (as claimed): Document identifiers are never reused.  Once the
\* document a held Document refers to has been deleted, no step stores a
\* document under that identifier again.
C30_NoIdentifierReuse ==
    [][(handle # NoHandle /\ ~HasDocument(documents, handle.document_id))
          => ~HasDocument(documents', handle.document_id)]_vars

\* ---- search_hybrid on a populated store
\* C27: Candidate retrieval in search_hybrid.  A call search_hybrid(query, k)
\* makes exactly two searches, first one vector search with the limit 2 * k,
\* then one keyword search, both for the call's query and both before the
\* fusion, whose input their results are; it returns at most k records, each
\* with a hybrid_score.
C27_CandidateRetrieval ==
    last_op.op = "search_hybrid" =>
        /\ calls = <<[search |-> "search_by_vector", k |-> 2 * search_args.k],
                     [search |-> "search_by_keyword"]>>
        /\ vector_results \in search_text_units_by_vector(documents, text_units,
                                  text_units_vec, search_args.distance, 2 * search_args.k)
        /\ keyword_results = search_by_keyword(text_units, search_args.extraction)
        /\ Len(processed_results)
              = Cardinality(VectorIds \cup KeywordIds)
        /\ \A i \in 1..Len(processed_results) :
              IdOf(processed_results[i]) \in VectorIds \cup KeywordIds
        /\ returned = SubSeq(processed_results, 1, Len(returned))
        /\ Len(returned) <= search_args.k
        /\ \A i \in 1..Len(returned) : "hybrid_score" \in DOMAIN returned[i]

\* C27 witness: search_hybrid with k = 1 on a store of three text units: the
\* vector search gave two hits, the keyword search one more, one record is
\* returned
C27_Witness ==
    /\ last_op.op = "search_hybrid"
    /\ search_args.k = 1
    /\ Cardinality(text_units) = 3
    /\ Len(vector_results) = 2
    /\ KeywordIds \ VectorIds # {}
    /\ Len(returned) = 1

\* ---- RAG: the projects of a database directory
InfoKeys == {"id", "name", "description", "created_at", "updated_at"}

\* C21: add_project is idempotent on an existing project.  A step
\* add_project(id, name, description) for an id whose database exists
\* succeeds with a Project of that id and leaves the project info stored in
\* that database, and every other database, as it was, whatever name and
\* description are passed.
C21_AddProjectIdempotent ==
    [][\A id \in ProjectIds, name \in Names, description \in Descriptions :
          (files[<<RagDir, id>>].exists /\ AddProject(RagDir, id, name, description)) =>
              /\ last_op'.status = "ok" /\ last_op'.id = id
              /\ files'[<<RagDir, id>>].exists
              /\ get_project_info(files'[<<RagDir, id>>])
                    = get_project_info(files[<<RagDir, id>>])
              /\ \A key \in DOMAIN files :
                    key # <<RagDir, id>> => files'[key] = files[key]]_vars

\* C21 witness: add_project was called with the name "Docs" and a description
\* for a project created earlier without either: the stored name is still
\* the id, the description the default, the creation time the earlier one
C21_Witness ==
    /\ last_op.op = "add_project"
    /\ last_op.name = <<<<"Docs">>>> /\ last_op.description = <<<<"about">>>>
    /\ get_project_info(files[<<RagDir, last_op.id>>])
          = <<project_data(last_op.id, <<>>, <<>>, 1)>>
    /\ clock > 1

\* C22 (as claimed): Project creation.  After add_project(id, name,
\* description) for an id without a database, get_project(project_id=id)
\* returns exactly one project, of that id, and its project info has the keys
\* id, name, description, created_at and updated_at, with the given id, the
\* given name (the id when none is given), the given description
\* ("Project: <id>" when none is given) and created_at equal to updated_at.
C22_ProjectCreation ==
    [][\A id \in ProjectIds, name \in Names, description \in Descriptions :
          (~files[<<RagDir, id>>].exists /\ AddProject(RagDir, id, name, description)) =>
              LET info == get_project_info(files'[<<RagDir, id>>])
              IN  /\ get_project(files', RagDir, id) = [raises |-> FALSE, ids |-> <<id>>]
                  /\ Len(info) = 1
                  /\ DOMAIN info[1] = InfoKeys
                  /\ info[1].id = id
                  /\ info[1].name = IF name = <<>> THEN <<id>> ELSE name[1]
                  /\ info[1].description = IF description = <<>> THEN <<"Project: ", id>>
                                           ELSE description[1]
                  /\ info[1].created_at = info[1].updated_at]_vars

\* C23 (as claimed): Project removal.  remove_project(id) of an existing
\* project removes its database; get_project(project_id=id) for an id
\* without a database raises FileNotFoundError and creates none;
\* get_project() lists exactly the projects whose database exists; and a
\* database that does not exist stays absent in every step that is not an
\* add_project of its id.
C23_ProjectRemoval ==
    [][/\ \A id \in ProjectIds :
             (files[<<RagDir, id>>].exists /\ RemoveProject(RagDir, id))
                 => ~files'[<<RagDir, id>>].exists
       /\ \A id \in ProjectIds :
             (~files[<<RagDir, id>>].exists /\ GetProject(RagDir, id))
                 => last_op'.status = "FileNotFoundError" /\ files' = files
       /\ GetProjects(RagDir) =>
             last_op'.result = {id \in ProjectIds : files[<<RagDir, id>>].exists}
       /\ \A id \in ProjectIds :
             (/\ ~files[<<RagDir, id>>].exists
              /\ ~\E name \in Names, description \in Descriptions :
                     AddProject(RagDir, id, name, description))
                 => ~files'[<<RagDir, id>>].exists]_vars

\* ---- concurrent ingestion
Ended(p) == connections[p].pc \in {"returned", "raised"}
\* the documents rows stored for the file of call p
StoredFor(p) == {d \in documents : d.path = connections[p].path}
\* every embedding of document d is the one computed from the content of the
\* text unit it is keyed to
OwnEmbeddings(d) ==
    \A t \in UnitsIn(text_units, d.id) :
        \A v \in text_units_vec : v.rowid = t.id => v.embedding = EmbeddingBytes(t.content)

\* C28: Concurrent ingestion of different documents.  When two add_document
\* calls for different documents on one project database have interleaved
\* their database steps in any way and both have ended, each call has either
\* failed with none of its rows stored, or stored its document under an id no
\* other document has, with exactly the text units split_text_unit gave it
\* (sequences 0..n-1) and, keyed to each of them, the embedding of its own
\* content; and no text unit or embedding is stored without its document.
C28_ConcurrentIngestion ==
    (\A p \in Procs : Ended(p)) =>
        /\ \A p \in Procs :
              \/ /\ connections[p].pc = "raised"
                 /\ StoredFor(p) = {}
              \/ /\ Cardinality(StoredFor(p)) = 1
                 /\ \A d \in StoredFor(p) :
                       /\ d.id = connections[p].document_id
                       /\ \A e \in documents : e.id = d.id => e = d
                       /\ StoredWhole(documents, text_units, text_units_vec, d,
                                      connections[p].units)
                       /\ OwnEmbeddings(d)
        /\ Integrity(documents, text_units, text_units_vec)

\* both calls wrote statements and both stored their document: the second
\* writer started after the first had committed
C28_Witness ==
    /\ \A p \in Procs : connections[p].pc = "returned" /\ Cardinality(StoredFor(p)) = 1
    /\ Cardinality(documents) = 3
    /\ {connections[p].document_id : p \in Procs} = {2, 3}

====
